---- MODULE Spec2Model ----
(***************************************************************************)
(* Model of fish-speech-go: the admission limiter, the work queue          *)
(* (queue.Manager), the streaming relay and the MessagePack encoder of the  *)
(* backend client. Each component has its own specification (Spec,          *)
(* QueueSpec, RelaySpec, CodecSpec); in the behaviours of one the other     *)
(* components stay in their initial state.                                  *)
(*                                                                         *)
(* The repository holds four implementations of the limiter:               *)
(*   "Metrics"   streaming.Chunker of src/unnamed/part_000 (ChunkerConfig   *)
(*               with a Metrics, whose gauge is activeStreams),            *)
(*   "Config"    streaming.Chunker of src/unnamed/part_001, lines 1-88,     *)
(*   "Options"   streaming.Chunker of src/unnamed/part_001, lines 90-225,   *)
(*   "Semaphore" api.SemaphoreChunker of src/internal/api/handlers.go.      *)
(* The variable variant says which one a behaviour runs.                    *)
(***************************************************************************)
EXTENDS Integers, FiniteSets, Sequences, TLC

\* ------------------------------------------------------------------ bounds
NumCallers == 3
MaxCap == 2
NumSubmitters == 2
MaxWorkers == 2
MaxQueueCap == 2
MaxJobs == 2
NumShutdownCallers == 2
MaxChunks == 3
MaxOverRelease == 2
MaxFailures == 3

Procs == 1..NumCallers
Variants == {"Metrics", "Config", "Options", "Semaphore"}

VARIABLES
    variant,            \* which implementation of the limiter runs
    cfgMaxConcurrent,   \* the MaxConcurrent handed to the constructor
    acquireTimeout,     \* the AcquireTimeout handed to the constructor (0 = unset)
    ctor,               \* outcome of the constructor: "ok", "error", "panic"
    cap,                \* cap(c.slots) / cap(c.sem)
    slots,              \* len(c.slots) / len(c.sem)
    pc,                 \* per caller: "idle", "fast", "slow", "wait", "holding", "work"
    ctx,                \* per caller in Acquire: state of the context it passed
    timer,              \* per caller in Acquire: the AcquireTimeout timer
    result,             \* per caller: what the last Acquire / Stream returned:
                        \*   "granted", "ErrLimitExceeded", "ErrAcquireTimeout",
                        \*   "CtxErr" (the value of the caller's ctx.Err()),
                        \*   "nil", "error", "panic" (Stream), "none"
    released,           \* per caller: calls of the release closure of its grant
                        \*   (0, 1, or 2 for "more than once")
    activeStreams,      \* the gauge m.activeStreams of the Metrics of part_000's
                        \*   Chunker (the other implementations have none: 0)
    limitExceeded,      \* the counter of refusals with ErrLimitExceeded: of the
                        \*   Metrics of part_000's Chunker, and of the handler
                        \*   around SemaphoreChunker (the others have none: 0)
    acquireTimeouts     \* the counter of acquire timeouts, likewise

\* queue.Manager of src/internal/queue/manager.go
VARIABLES
    workers,            \* m.workers
    jobsCap,            \* cap(m.jobs)
    jobs,               \* the jobs buffered in m.jobs, oldest first
    closed,             \* m.closed is closed
    jobsClosed,         \* m.jobs is closed
    closes,             \* runs of the body of closeOnce.Do (2 = a double close)
    active,             \* m.active
    inflight,           \* counter of m.inflight
    wpc,                \* per worker: "recv", "claimed", "running", "reported",
                        \*   "exited", "absent"
    wjob,               \* per worker: the job it has claimed (0 = none)
    spc,                \* per Submit caller: "idle", "checked", "handoff", "waitres"
    sctx,               \* per Submit caller: its context, "live" or "done"
    sjob,               \* per Submit caller: its accepted job (0 = none)
    sres,               \* per Submit caller: what its last Submit returned
    hpc,                \* per Shutdown caller: "idle", "closing", "wait"
    hctx,               \* per Shutdown caller: its context
    hres,               \* per Shutdown caller: what its last Shutdown returned
    accepted,           \* jobs sent on m.jobs so far; job k is the k-th of them
    claims,             \* per job: times a worker received it
    execs,              \* per job: times its function was started
    sends,              \* per job: results sent on its result channel
    rbuf                \* per job: content of its result channel (capacity 1):
                        \*   "empty" or "fnResult", the value j.fn returned

\* the streaming relay of one request: handleStreamingTTS of
\* src/go/internal/api/handlers.go and the two TTSHandler.ServeHTTP of
\* src/internal/api/tts_handler.go (a configured backend is assumed)
VARIABLES
    rkind,              \* "Loop" (handleStreamingTTS), "Copy" (TTSHandler.ServeHTTP,
                        \*   lines 51-98), "Queue" (TTSHandler.ServeHTTP, lines 318-381)
    bChunks,            \* chunks the backend delivers before its response ends
    bEnd,               \* how the backend ends: "EOF", "err" (the response fails),
                        \*   "callErr" (the call fails before any response)
    reqDefect,          \* what is wrong with the request: "none", "invalid"
                        \*   (rejected by the validation), "tooLarge" (body over
                        \*   the limit of http.MaxBytesReader)
    rpc,                \* "parse", "start", "queued", "call", "flushed", "read", "write",
                        \*   "flush", "handleErr", "done"
    nread,              \* chunks read from the backend
    nflushed,           \* chunks written and explicitly flushed
    sink,               \* what reached the client, in order: "chunk", "errbody"
    sinkOk,             \* writes to the client succeed (the connection is up)
    status,             \* the status code committed to the client (0 = none yet)
    headerCalls,        \* calls of w.WriteHeader (2 = more than one)
    hdrSet,             \* Content-Type in w.Header(): "none", "audio", "json"
    hdrSent,            \* Content-Type committed with the status ("none" = none)
    slotHeld,           \* the request holds an admission slot
    releases,           \* runs of the release closure of the request's slot
    relayErr,           \* what the relay reported to its caller ("none" = nothing yet)
    errClass,           \* the class of the error reported ("none" = no error)
    bStatus,            \* the status of a backend non-success response (0 = none)
    errStatus           \* the status last handed to writeError (0 = none)

\* the MessagePack encoder of src/unnamed/part_007: one call of
\* encodeTTSRequest, writeString or writeMapHeader, and the decoding of an
\* encoded request. A string is the sequence of its bytes; a float64 is its
\* IEEE-754 bit pattern as four 16-bit words, most significant first; a nil
\* *float64 is <<>> and a pointer to f is <<f>>.
VARIABLES
    encOp,              \* what is called: "request", "string", "map" ("none": nothing)
    encPayload,         \* the TTSRequest handed to encodeTTSRequest
    strValue,           \* the value handed to writeString
    mapSize,            \* the size handed to writeMapHeader
    encPc,              \* "input", "encoded", "decoded", "again"
    encBuf,             \* the bytes written
    encErr,             \* the error returned ("nil" = none)
    encAgain,           \* the bytes of a second encodeTTSRequest of encPayload
    decoded             \* what a decoder of the format reads from encBuf

\* backend.Client.StreamTTS of src/unnamed/part_007: one call, and the caller's
\* reads of the response body it returned.
VARIABLES
    clientTimeout,      \* c.timeout (0 = none)
    doOutcome,          \* what the backend answers: "ok", "status500", "transportErr"
    bodyLen,            \* the chunks of the response body
    stpc,               \* "start", "do", "returned", "closed"
    reqCtx,             \* the context of the request: "live", "canceled", "deadline"
    cancelBy,           \* who ended reqCtx: "none", "StreamTTS", "caller", "timeout"
    stErr,              \* the error of StreamTTS: "none" (not returned), "nil",
                        \*   "HTTPError", "perform"
    bodyRead,           \* the chunks the caller has read from resp.Body
    bodyErr             \* the error of the last resp.Body.Read: "none", "EOF", "ctxErr"

Submitters == 1..NumSubmitters
Workers == 1..MaxWorkers
ShutdownCallers == 1..NumShutdownCallers
JobIds == 1..MaxJobs

chunkerVars == <<variant, cfgMaxConcurrent, acquireTimeout, ctor, cap, slots, pc,
                 ctx, timer, result, released, activeStreams, limitExceeded,
                 acquireTimeouts>>

counters == <<limitExceeded, acquireTimeouts>>

qcfgVars == <<workers, jobsCap>>

qvars == <<workers, jobsCap, jobs, closed, jobsClosed, closes, active,
           inflight, wpc, wjob, spc, sctx, sjob, sres, hpc, hctx, hres,
           accepted, claims, execs, sends, rbuf>>

rvars == <<reqDefect, rkind, bChunks, bEnd, rpc, nread, nflushed, sink, sinkOk, status,
           headerCalls, hdrSet, hdrSent, slotHeld, releases, relayErr, errClass,
           bStatus, errStatus>>

cvars == <<encOp, encPayload, strValue, mapSize, encPc, encBuf, encErr, encAgain,
           decoded>>

kvars == <<clientTimeout, doOutcome, bodyLen, stpc, reqCtx, cancelBy, stErr,
           bodyRead, bodyErr>>

\* What the steps of one component leave alone: the other components.
notChunker == <<qvars, rvars, cvars, kvars>>
notQueue == <<chunkerVars, rvars, cvars, kvars>>
notRelay == <<chunkerVars, qvars, cvars, kvars>>
notCodec == <<chunkerVars, qvars, rvars, kvars>>
notClient == <<chunkerVars, qvars, rvars, cvars>>

vars == <<chunkerVars, qvars, rvars, cvars, kvars>>

\* A request for kind k against a backend that delivers n chunks and ends with e.
RelayInit(k, n, e, d) ==
    /\ reqDefect = d
    /\ rkind = k
    /\ bChunks = n
    /\ bEnd = e
    /\ rpc = "parse"
    /\ nread = 0
    /\ nflushed = 0
    /\ sink = <<>>
    /\ sinkOk = TRUE
    /\ status = 0
    /\ headerCalls = 0
    /\ hdrSet = "none"
    /\ hdrSent = "none"
    /\ slotHeld = FALSE
    /\ releases = 0
    /\ relayErr = "none"
    /\ errClass = "none"
    /\ bStatus = 0
    /\ errStatus = 0

\* No request, in the behaviours of the limiter and of the manager.
RelayOff == RelayInit("Loop", 0, "EOF", "none")

\* The zero value of TTSRequest.
ZeroPayload ==
    [Text |-> <<>>, ReferenceID |-> <<>>, Streaming |-> FALSE, Format |-> <<>>,
     TopP |-> <<>>, Temperature |-> <<>>]

\* Nothing decoded yet.
NoDecode == [ok |-> FALSE, declared |-> 0, entries |-> <<>>, rest |-> 0]

\* The call op of the encoder with the request p, the string v, the size n.
CodecInit(op, p, v, n) ==
    /\ encOp = op
    /\ encPayload = p
    /\ strValue = v
    /\ mapSize = n
    /\ encPc = "input"
    /\ encBuf = <<>>
    /\ encErr = "nil"
    /\ encAgain = <<>>
    /\ decoded = NoDecode

\* No call of the encoder, in the behaviours of the other components.
CodecOff == CodecInit("none", ZeroPayload, <<>>, 0)

\* A Client built by NewClient with the timeout t, before a StreamTTS whose
\* backend answers o with a body of n chunks.
ClientInit(t, o, n) ==
    /\ clientTimeout = t
    /\ doOutcome = o
    /\ bodyLen = n
    /\ stpc = "start"
    /\ reqCtx = "live"
    /\ cancelBy = "none"
    /\ stErr = "none"
    /\ bodyRead = 0
    /\ bodyErr = "none"

\* A client nobody calls, in the behaviours of the other components.
ClientOff == ClientInit(0, "ok", 0)

\* NewManager: Workers <= 0 becomes 1, MaxQueue < 0 becomes 0.
NewManager(cfg) ==
    [workers |-> IF cfg.Workers <= 0 THEN 1 ELSE cfg.Workers,
     jobsCap |-> IF cfg.MaxQueue < 0 THEN 0 ELSE cfg.MaxQueue]

\* The manager as NewManager(cfg) returns it: every worker is at its receive.
ManagerInit(cfg) ==
    /\ workers = NewManager(cfg).workers
    /\ jobsCap = NewManager(cfg).jobsCap
    /\ jobs = <<>>
    /\ closed = FALSE
    /\ jobsClosed = FALSE
    /\ closes = 0
    /\ active = 0
    /\ inflight = 0
    /\ wpc = [w \in Workers |-> IF w <= NewManager(cfg).workers THEN "recv" ELSE "absent"]
    /\ wjob = [w \in Workers |-> 0]
    /\ spc = [s \in Submitters |-> "idle"]
    /\ sctx = [s \in Submitters |-> "live"]
    /\ sjob = [s \in Submitters |-> 0]
    /\ sres = [s \in Submitters |-> "none"]
    /\ hpc = [h \in ShutdownCallers |-> "idle"]
    /\ hctx = [h \in ShutdownCallers |-> "live"]
    /\ hres = [h \in ShutdownCallers |-> "none"]
    /\ accepted = 0
    /\ claims = [j \in JobIds |-> 0]
    /\ execs = [j \in JobIds |-> 0]
    /\ sends = [j \in JobIds |-> 0]
    /\ rbuf = [j \in JobIds |-> "empty"]

\* A manager nobody calls, in the behaviours of the limiter.
QueueOff == ManagerInit([Workers |-> 1, MaxQueue |-> 0])

\* ------------------------------------------------------------ constructors
\* NewChunker / NewSemaphoreChunker: the outcome and the channel capacity.
NewChunker(v, maxc) ==
    CASE v \in {"Metrics", "Config"} ->
            [ctor |-> "ok", cap |-> IF maxc <= 0 THEN 1 ELSE maxc]
      [] v = "Options" ->
            IF maxc <= 0 THEN [ctor |-> "error", cap |-> 0]
                         ELSE [ctor |-> "ok", cap |-> maxc]
      [] v = "Semaphore" ->
            \* make(chan struct{}, n) panics for n < 0; n = 0 is an unbuffered channel
            IF maxc < 0 THEN [ctor |-> "panic", cap |-> 0]
                        ELSE [ctor |-> "ok", cap |-> maxc]

\* ------------------------------------------------------------------ contexts
\* ctx.Err() of a context that is done.
CtxErr(c) == IF c = "deadline" THEN "DeadlineExceeded" ELSE "Canceled"

CtxDoneNow(c) == c # "live"

\* Err() of context.WithTimeout(ctx, acquireTimeout): the parent's error when the
\* parent was done first, DeadlineExceeded when the timer fired first.
SlotCtxErr(c, t) ==
    IF t = "first" THEN "DeadlineExceeded"
    ELSE IF CtxDoneNow(c) THEN CtxErr(c)
    ELSE "none"

\* ------------------------------------------------------------------- channel
\* (mutant) a send that is let through on a full channel.
CanSendOffByOne(s, k) == s <= k

\* A send on the slot channel can proceed.
CanSend(s, k) == s < k

\* Callers that were granted a slot and have not yet called its release closure.
Holders == {p \in Procs : pc[p] \in {"holding", "work"} /\ released[p] = 0}

Init ==
    /\ variant \in Variants
    /\ cfgMaxConcurrent \in 0..MaxCap
    /\ acquireTimeout \in {0, 1}
    /\ ctor = NewChunker(variant, cfgMaxConcurrent).ctor
    /\ cap = NewChunker(variant, cfgMaxConcurrent).cap
    /\ slots = 0
    /\ pc = [p \in Procs |-> "idle"]
    /\ ctx = [p \in Procs |-> "live"]
    /\ timer = [p \in Procs |-> "idle"]
    /\ result = [p \in Procs |-> "none"]
    /\ released = [p \in Procs |-> 0]
    /\ activeStreams = 0
    /\ limitExceeded = 0
    /\ acquireTimeouts = 0
    /\ QueueOff
    /\ RelayOff
    /\ CodecOff
    /\ ClientOff

\* What no step of the limiter changes: its configuration, and the other components.
cfgVars == <<variant, cfgMaxConcurrent, acquireTimeout, ctor, cap, notChunker>>

\* onAcquire of part_000: c.metrics.IncActiveStreams(), with g the gauge.
IncActiveStreams(v, g) == IF v = "Metrics" THEN g + 1 ELSE g

\* The release closure of part_000 called with s slots taken:
\* c.metrics.DecActiveStreams() after the select, whichever branch it took.
DecActiveStreams(v, g, s) == IF v = "Metrics" THEN g - 1 ELSE g

\* The implementations whose refusals are counted: part_000's Chunker in its
\* Metrics, SemaphoreChunker's in the Metrics of the handler that calls it.
CountingVariants == {"Metrics", "Semaphore"}

\* c.metrics.IncLimitExceeded() / h.metrics.IncLimitExceeded() when Acquire
\* returns e, with n the counter.
IncLimitExceeded(v, e, n) ==
    IF v \in CountingVariants /\ e = "ErrLimitExceeded" THEN n + 1 ELSE n

\* (mutant) the timeout counter counts every Acquire that returns an error
\* after waiting, a cancelled one included.
IncAcquireTimeoutsOnAnyWait(v, e, n) ==
    IF v \in CountingVariants /\ e # "ErrLimitExceeded" THEN n + 1 ELSE n

\* c.metrics.IncAcquireTimeouts() / h.metrics.IncAcquireTimeout() when Acquire
\* returns e, with n the counter.
IncAcquireTimeouts(v, e, n) ==
    IF v \in CountingVariants /\ e = "ErrAcquireTimeout" THEN n + 1 ELSE n

\* The caller p leaves Acquire with a slot and its release closure:
\* onAcquire / releaseFn / the closure of the Options and Semaphore variants.
Grant(p) ==
    /\ slots' = slots + 1
    /\ activeStreams' = IncActiveStreams(variant, activeStreams)
    /\ UNCHANGED counters
    /\ pc' = [pc EXCEPT ![p] = "holding"]
    /\ result' = [result EXCEPT ![p] = "granted"]
    /\ ctx' = [ctx EXCEPT ![p] = "live"]
    /\ timer' = [timer EXCEPT ![p] = "idle"]

\* (mutant) an Acquire that fails although a slot is free leaves its token in
\* the channel.
FailKeepsToken(p, e) ==
    /\ slots' = IF CanSend(slots, cap) THEN slots + 1 ELSE slots
    /\ activeStreams' = activeStreams
    /\ limitExceeded' = IncLimitExceeded(variant, e, limitExceeded)
    /\ acquireTimeouts' = IncAcquireTimeouts(variant, e, acquireTimeouts)
    /\ pc' = [pc EXCEPT ![p] = "idle"]
    /\ result' = [result EXCEPT ![p] = e]
    /\ ctx' = [ctx EXCEPT ![p] = "live"]
    /\ timer' = [timer EXCEPT ![p] = "idle"]

\* The caller p leaves Acquire with the error e (Stream returns it unchanged).
Fail(p, e) ==
    /\ slots' = slots
    /\ activeStreams' = activeStreams
    /\ limitExceeded' = IncLimitExceeded(variant, e, limitExceeded)
    /\ acquireTimeouts' = IncAcquireTimeouts(variant, e, acquireTimeouts)
    /\ pc' = [pc EXCEPT ![p] = "idle"]
    /\ result' = [result EXCEPT ![p] = e]
    /\ ctx' = [ctx EXCEPT ![p] = "live"]
    /\ timer' = [timer EXCEPT ![p] = "idle"]

\* The caller p goes on to the select at l.
Goto(p, l) ==
    /\ slots' = slots
    /\ activeStreams' = activeStreams
    /\ UNCHANGED counters
    /\ pc' = [pc EXCEPT ![p] = l]
    /\ UNCHANGED <<result, ctx, timer>>

\* Acquire is called, directly or as the first statement of Stream / ServeHTTP,
\* with a context that is live or already cancelled. The Options variant has
\* no fast path: its first select is the blocking one.
Call(p) ==
    /\ ctor = "ok"
    /\ pc[p] = "idle"
    /\ limitExceeded + acquireTimeouts
          + Cardinality({q \in Procs : pc[q] \in {"fast", "slow", "wait"}}) < MaxFailures
    /\ \E c0 \in {"live", "canceledAtCall"} : ctx' = [ctx EXCEPT ![p] = c0]
    /\ pc' = [pc EXCEPT ![p] = IF variant = "Options" THEN "wait" ELSE "fast"]
    /\ result' = [result EXCEPT ![p] = "none"]
    /\ released' = [released EXCEPT ![p] = 0]
    /\ UNCHANGED <<cfgVars, counters, activeStreams, slots, timer>>

\* The fast path of Acquire (Metrics, Config, Semaphore): a select on the send
\* with a default branch; then the branch on acquireTimeout.
FastStep(p) ==
    /\ pc[p] = "fast"
    /\ IF CanSend(slots, cap)
         THEN Grant(p)
         ELSE CASE variant = "Metrics" ->
                     Goto(p, IF acquireTimeout <= 0 THEN "slow" ELSE "wait")
                [] variant = "Config" -> Goto(p, "wait")
                [] variant = "Semaphore" ->
                     IF acquireTimeout = 0
                       THEN Fail(p, "ErrLimitExceeded")
                       ELSE Goto(p, "wait")
    /\ UNCHANGED <<cfgVars, released>>

\* (mutant) the refusal does not depend on the send being blocked.
SlowStepRefusesFreeSlot(p) ==
    /\ pc[p] = "slow"
    /\ \/ CanSend(slots, cap) /\ Grant(p)
       \/ CtxDoneNow(ctx[p]) /\ Fail(p, "CtxErr")
       \/ ~CtxDoneNow(ctx[p]) /\ Fail(p, "ErrLimitExceeded")
    /\ UNCHANGED <<cfgVars, released>>

\* Chunker.Acquire of part_000, second select (acquireTimeout <= 0): a select with
\* a default branch; Go picks among the ready cases, default when none is ready.
SlowStep(p) ==
    /\ pc[p] = "slow"
    /\ \/ CanSend(slots, cap) /\ Grant(p)
       \/ CtxDoneNow(ctx[p]) /\ Fail(p, "CtxErr")
       \/ ~CanSend(slots, cap) /\ ~CtxDoneNow(ctx[p]) /\ Fail(p, "ErrLimitExceeded")
    /\ UNCHANGED <<cfgVars, released>>

\* The timer case of the blocking select is ready.
TimerReady(t) == t # "idle"

\* (mutant) the timeout branch is taken whether or not the timer has fired.
WaitChunkerTimesOutEarly(p) ==
    \/ CanSend(slots, cap) /\ Grant(p)
    \/ CtxDoneNow(ctx[p]) /\ Fail(p, "CtxErr")
    \/ acquireTimeout > 0 /\ Fail(p, "ErrAcquireTimeout")

\* (mutant) with no AcquireTimeout the blocking select refuses a caller that
\* finds no slot, as the no-wait variants do.
WaitChunkerNoWait(p) ==
    \/ CanSend(slots, cap) /\ Grant(p)
    \/ CtxDoneNow(ctx[p]) /\ Fail(p, "CtxErr")
    \/ TimerReady(timer[p]) /\ Fail(p, "ErrAcquireTimeout")
    \/ /\ acquireTimeout <= 0
       /\ ~CanSend(slots, cap)
       /\ ~CtxDoneNow(ctx[p])
       /\ Fail(p, "ErrLimitExceeded")

\* (mutant) a blocking select without the case on ctx.Done().
WaitChunkerNoCtx(p) ==
    \/ CanSend(slots, cap) /\ Grant(p)
    \/ TimerReady(timer[p]) /\ Fail(p, "ErrAcquireTimeout")

\* Chunker.Acquire of part_000 and of part_001 (ChunkerConfig), the blocking
\* select: a slot, the caller's context, or the timer (armed when
\* acquireTimeout > 0 only).
WaitChunker(p) ==
    \/ CanSend(slots, cap) /\ Grant(p)
    \/ CtxDoneNow(ctx[p]) /\ Fail(p, "CtxErr")
    \/ TimerReady(timer[p]) /\ Fail(p, "ErrAcquireTimeout")

\* Chunker.Acquire of part_001 (Options): one select on the semaphore and on
\* slotCtx, which is ctx wrapped in WithTimeout when acquireTimeout > 0.
WaitOptions(p) ==
    \/ CanSend(slots, cap) /\ Grant(p)
    \/ /\ SlotCtxErr(ctx[p], timer[p]) # "none"
       /\ Fail(p, IF SlotCtxErr(ctx[p], timer[p]) = "DeadlineExceeded"
                    THEN "ErrAcquireTimeout" ELSE "ErrLimitExceeded")

\* SemaphoreChunker.Acquire, the select after the fast path (acquireTimeout # 0).
\* timeoutCtx.Err() is the caller's ctx.Err() when it is not DeadlineExceeded.
WaitSemaphore(p) ==
    \/ CanSend(slots, cap) /\ Grant(p)
    \/ /\ SlotCtxErr(ctx[p], timer[p]) # "none"
       /\ Fail(p, IF SlotCtxErr(ctx[p], timer[p]) = "DeadlineExceeded"
                    THEN "ErrAcquireTimeout" ELSE "CtxErr")

WaitStep(p) ==
    /\ pc[p] = "wait"
    /\ CASE variant \in {"Metrics", "Config"} -> WaitChunker(p)
         [] variant = "Options" -> WaitOptions(p)
         [] variant = "Semaphore" -> WaitSemaphore(p)
    /\ UNCHANGED <<cfgVars, released>>

\* The caller's context is cancelled or reaches its own deadline while the
\* caller is inside Acquire.
CtxDone(p) ==
    /\ pc[p] \in {"slow", "wait"}
    /\ ctx[p] = "live"
    /\ \E e \in {"canceled", "deadline"} : ctx' = [ctx EXCEPT ![p] = e]
    /\ UNCHANGED <<cfgVars, counters, activeStreams, slots, pc, timer, result, released>>

\* State of a timer that fires when the caller's context is in state c. Only
\* context.WithTimeout (Options, Semaphore) keeps which of the two came first;
\* a time.Timer is just fired.
Fired(v, c) ==
    IF v \in {"Options", "Semaphore"} /\ c # "live" THEN "late" ELSE "first"

\* The configured AcquireTimeout elapses for a waiting caller: time.NewTimer /
\* context.WithTimeout.
TimerFire(p) ==
    /\ pc[p] = "wait"
    /\ acquireTimeout > 0
    /\ timer[p] = "idle"
    /\ timer' = [timer EXCEPT ![p] = Fired(variant, ctx[p])]
    /\ UNCHANGED <<cfgVars, counters, activeStreams, slots, pc, ctx, result, released>>

\* The release closure can run to its end when called for the (n+1)-th time.
\* SemaphoreChunker's closure is a bare receive: it blocks on an empty channel.
ReleaseEnabled(v, s, n) ==
    IF v = "Semaphore" THEN s > 0 ELSE TRUE

\* len of the slot channel after the (n+1)-th call of a release closure.
ReleaseSlots(v, s, n) ==
    CASE v \in {"Metrics", "Config"} -> IF s > 0 THEN s - 1 ELSE s
      [] v = "Options" -> IF n = 0 /\ s > 0 THEN s - 1 ELSE s
      [] v = "Semaphore" -> s - 1

\* A direct caller of Acquire invokes the release closure it was given.
Release(p) ==
    /\ pc[p] = "holding"
    /\ released[p] = 0
    /\ ReleaseEnabled(variant, slots, 0)
    /\ slots' = ReleaseSlots(variant, slots, 0)
    /\ activeStreams' = DecActiveStreams(variant, activeStreams, slots)
    /\ released' = [released EXCEPT ![p] = 1]
    /\ UNCHANGED <<cfgVars, counters, pc, ctx, timer, result>>

\* A direct caller invokes the release closure of its grant once more.
ReleaseAgain(p) ==
    /\ pc[p] = "holding"
    /\ released[p] >= 1
    /\ ReleaseEnabled(variant, slots, released[p])
    /\ activeStreams > -MaxOverRelease
    /\ slots' = ReleaseSlots(variant, slots, released[p])
    /\ activeStreams' = DecActiveStreams(variant, activeStreams, slots)
    /\ released' = [released EXCEPT ![p] = 2]
    /\ UNCHANGED <<cfgVars, counters, pc, ctx, timer, result>>

\* A direct caller that has released goes on and drops the closure.
Drop(p) ==
    /\ pc[p] = "holding"
    /\ released[p] >= 1
    /\ pc' = [pc EXCEPT ![p] = "idle"]
    /\ result' = [result EXCEPT ![p] = "none"]
    /\ UNCHANGED <<cfgVars, counters, activeStreams, slots, ctx, timer, released>>

\* (mutant) Stream releases the slot before it invokes the guarded function.
StreamWorkReleasedEarly(p) ==
    /\ pc[p] = "holding"
    /\ released[p] = 0
    /\ pc' = [pc EXCEPT ![p] = "work"]
    /\ slots' = slots - 1
    /\ activeStreams' = DecActiveStreams(variant, activeStreams, slots)
    /\ released' = [released EXCEPT ![p] = 1]
    /\ UNCHANGED <<cfgVars, counters, ctx, timer, result>>

\* Chunker.Stream / ServeHTTP when Acquire returned no error: the release is
\* deferred and the guarded function (streamFn, producer) is invoked.
StreamWork(p) ==
    /\ pc[p] = "holding"
    /\ released[p] = 0
    /\ pc' = [pc EXCEPT ![p] = "work"]
    /\ UNCHANGED <<cfgVars, counters, activeStreams, slots, ctx, timer, result, released>>

\* (mutant) the release is called after the guarded function instead of being
\* deferred: a panic skips it.
ReleaseNotDeferred(o) == IF o = "panic" THEN 0 ELSE 1

\* How often Stream's deferred release runs when the guarded function ends
\* with outcome o ("nil", "error" or "panic").
DeferredReleases(o) == 1

\* Chunker.Stream / ServeHTTP: the guarded function ends, the deferred release
\* runs, the call returns (or the panic goes on to the caller).
StreamReturn(p) ==
    /\ pc[p] = "work"
    /\ \E o \in {"nil", "error", "panic"} :
        /\ IF DeferredReleases(o) = 1
             THEN /\ ReleaseEnabled(variant, slots, released[p])
                  /\ slots' = ReleaseSlots(variant, slots, released[p])
                  /\ activeStreams' = DecActiveStreams(variant, activeStreams, slots)
             ELSE slots' = slots /\ activeStreams' = activeStreams
        /\ released' = [released EXCEPT ![p] = @ + DeferredReleases(o)]
        /\ result' = [result EXCEPT ![p] = o]
    /\ pc' = [pc EXCEPT ![p] = "idle"]
    /\ UNCHANGED <<cfgVars, counters, ctx, timer>>

Next ==
    \E p \in Procs :
        \/ Call(p)
        \/ FastStep(p)
        \/ SlowStep(p)
        \/ WaitStep(p)
        \/ CtxDone(p)
        \/ TimerFire(p)
        \/ Release(p)
        \/ Drop(p)
        \/ StreamWork(p)
        \/ StreamReturn(p)

\* Callers that invoke each release closure once.
Spec == Init /\ [][Next]_vars

\* The runtime schedules a caller whose select has a ready case, and time
\* passes: an armed timer fires.
FairSpec ==
    /\ Init
    /\ [][Next]_vars
    /\ \A p \in Procs : WF_vars(WaitStep(p)) /\ WF_vars(TimerFire(p))

\* Callers that may also invoke a release closure again.
NextMisuse == Next \/ \E p \in Procs : ReleaseAgain(p)

MisuseSpec == Init /\ [][NextMisuse]_vars

\* ------------------------------------------------------------------ claims
InAcquire(p) == pc[p] \in {"fast", "slow", "wait"}

\* The caller p takes a step of its own that ends its Acquire with an error.
ReturnsError(p) == InAcquire(p) /\ pc'[p] = "idle"

\* The caller p takes a step of its own that ends its Acquire with a slot.
ReturnsSlot(p) == InAcquire(p) /\ pc'[p] = "holding"

\* C1: when every release closure is invoked at most once (Spec), the number of
\* granted-but-unreleased slots never exceeds the capacity, and it is the
\* number of tokens in the channel, so that no send (no grant) can proceed
\* while cap slots are outstanding.
C1_AtMostN ==
    /\ Cardinality(Holders) <= cap
    /\ slots = Cardinality(Holders)
    /\ (Cardinality(Holders) = cap => ~CanSend(slots, cap))

\* C1 witness: a limiter of capacity >= 2 is saturated and a further caller has
\* been turned away with a timeout.
C1_Witness ==
    /\ cap >= 2
    /\ Cardinality(Holders) = cap
    /\ \E p \in Procs : result[p] = "ErrAcquireTimeout"

\* C2 (as claimed): also when a release closure is invoked two or more times
\* (MisuseSpec), the number of simultaneously granted slots of a limiter built
\* with MaxConcurrent >= 1 never exceeds MaxConcurrent.
C2_RepeatedReleaseSafe ==
    cfgMaxConcurrent >= 1 => Cardinality(Holders) <= cfgMaxConcurrent

\* C3 (as claimed): an Acquire called with an already cancelled context returns
\* the context's error, never a slot and never another error, and leaves the
\* number of held slots unchanged.
C3_CanceledAtCallGetsCtxErr ==
    [][\A p \in Procs :
         (/\ cfgMaxConcurrent >= 1
          /\ ctx[p] = "canceledAtCall"
          /\ InAcquire(p)
          /\ pc'[p] \in {"idle", "holding"})
            => (result'[p] = "CtxErr" /\ slots' = slots)]_vars

\* C4 (as claimed): an Acquire that waits on a saturated limiter and whose
\* context is cancelled or reaches its own deadline before the configured
\* AcquireTimeout has elapsed returns the context's error; ErrAcquireTimeout is
\* returned only when the configured timeout has elapsed.
C4_CtxErrBeforeTimeout ==
    [][\A p \in Procs :
         (cfgMaxConcurrent >= 1 /\ pc[p] = "wait" /\ pc'[p] = "idle") =>
            /\ (result'[p] = "ErrAcquireTimeout" => timer[p] # "idle")
            /\ (/\ ~CanSend(slots, cap)
                /\ ctx[p] \in {"canceled", "deadline"}
                /\ timer[p] = "idle") => result'[p] = "CtxErr"]_vars

\* The implementations with the no-wait policy named by C5.
NoWaitVariants == {"Metrics", "Semaphore"}

C6_TimeoutAfterT ==
    /\ [][\A p \in Procs :
            (pc[p] = "wait" /\ pc'[p] = "idle" /\ acquireTimeout > 0 /\ ctx[p] = "live")
               => (result'[p] = "ErrAcquireTimeout" /\ timer[p] # "idle")]_vars
    /\ \A p \in Procs :
          (pc[p] = "wait" /\ acquireTimeout > 0) ~> (pc[p] # "wait")

\* C6 witness: a caller with a live context was turned away with
\* ErrAcquireTimeout while the limiter is saturated.
C6_Witness ==
    /\ acquireTimeout > 0
    /\ cap >= 1
    /\ slots = cap
    /\ \E p \in Procs : result[p] = "ErrAcquireTimeout"

\* The implementations in which an Acquire without AcquireTimeout waits.
BlockingVariants == {"Config", "Options"}

\* The implementations of streaming.Chunker.
ChunkerVariants == {"Metrics", "Config", "Options"}

C8_NonPositiveRejected ==
    cfgMaxConcurrent <= 0 => (cap = 0 /\ Holders = {})

\* C9: the guarded function runs only for a caller whose Acquire was granted
\* and whose slot has not been released: it is started only from a grant, and
\* while it runs the caller's release has not been called and its token is in
\* the channel.
C9_WorkHoldsSlot ==
    /\ [](\A p \in Procs :
            pc[p] = "work" => (result[p] = "granted" /\ released[p] = 0 /\ p \in Holders))
    /\ [](Cardinality({p \in Procs : pc[p] = "work"}) <= slots)
    /\ [][\A p \in Procs :
            (pc'[p] = "work" /\ pc[p] # "work")
               => (pc[p] = "holding" /\ result[p] = "granted" /\ released[p] = 0)]_vars

\* C9 witness: one caller runs the guarded function while another caller's
\* Acquire has returned an error.
C9_Witness ==
    \E p, q \in Procs :
        /\ pc[p] = "work"
        /\ pc[q] = "idle"
        /\ result[q] \in {"ErrLimitExceeded", "ErrAcquireTimeout", "CtxErr"}

StreamOutcomes == {"nil", "error", "panic"}

\* C10: when Stream has returned, whatever the outcome of the guarded
\* function, its release has run exactly once and no token is left behind:
\* the channel holds exactly the tokens of the callers that still hold a slot.
C10_StreamReleasesOnce ==
    /\ \A p \in Procs : result[p] \in StreamOutcomes => (pc[p] = "idle" /\ released[p] = 1)
    /\ slots = Cardinality(Holders)

\* C10 witness: on a capacity-1 limiter a Stream ended with a panic and a
\* following Stream has acquired the slot.
C10_Witness ==
    /\ cap = 1
    /\ \E p, q \in Procs : result[p] = "panic" /\ pc[q] = "work"

\* ================================================================ queue.Manager
\* A limiter nobody calls, in the behaviours of the manager.
ChunkerOff ==
    /\ variant = "Metrics"
    /\ cfgMaxConcurrent = 1
    /\ acquireTimeout = 0
    /\ ctor = NewChunker("Metrics", 1).ctor
    /\ cap = NewChunker("Metrics", 1).cap
    /\ slots = 0
    /\ pc = [p \in Procs |-> "idle"]
    /\ ctx = [p \in Procs |-> "live"]
    /\ timer = [p \in Procs |-> "idle"]
    /\ result = [p \in Procs |-> "none"]
    /\ released = [p \in Procs |-> 0]
    /\ activeStreams = 0
    /\ limitExceeded = 0
    /\ acquireTimeouts = 0

QInit ==
    /\ ChunkerOff
    /\ RelayOff
    /\ CodecOff
    /\ ClientOff
    /\ \E w \in 0..MaxWorkers, q \in (-1)..MaxQueueCap :
          ManagerInit([Workers |-> w, MaxQueue |-> q])

\* wg.Wait() and inflight.Wait() of the goroutine of Shutdown have returned:
\* every worker has left its loop and no job is between Add(1) and Done().
Drained == (\A w \in Workers : wpc[w] \in {"exited", "absent"}) /\ inflight = 0

\* Submit calls between the first select and the send on m.jobs.
Sending == {s \in Submitters : spc[s] \in {"checked", "handoff"}}

\* Submit returns e to the caller s.
SubmitReturn(s, e) ==
    /\ spc' = [spc EXCEPT ![s] = "idle"]
    /\ sres' = [sres EXCEPT ![s] = e]
    /\ sjob' = [sjob EXCEPT ![s] = 0]
    /\ sctx' = [sctx EXCEPT ![s] = "live"]

\* The send m.jobs <- j of the caller s has proceeded: j is the next accepted
\* job, and s goes on to the select on j.result.
Accept(s) ==
    /\ accepted' = accepted + 1
    /\ spc' = [spc EXCEPT ![s] = "waitres"]
    /\ sjob' = [sjob EXCEPT ![s] = accepted + 1]
    /\ UNCHANGED <<sres, sctx>>

\* (mutant) a Submit without the first select on m.closed.
SubmitCallIgnoresClosed(s) ==
    /\ spc[s] = "idle"
    /\ accepted + Cardinality(Sending) < MaxJobs
    /\ spc' = [spc EXCEPT ![s] = "checked"]
    /\ sres' = [sres EXCEPT ![s] = "none"]
    /\ UNCHANGED <<sjob, sctx>>
    /\ UNCHANGED <<notQueue, qcfgVars, jobs, closed, jobsClosed, closes, active,
                   inflight, wpc, wjob, hpc, hctx, hres, accepted, claims, execs,
                   sends, rbuf>>

\* Submit is called: the first select, on m.closed with a default branch.
SubmitCall(s) ==
    /\ spc[s] = "idle"
    /\ accepted + Cardinality(Sending) < MaxJobs
    /\ IF closed
         THEN SubmitReturn(s, "ErrShutdown")
         ELSE /\ spc' = [spc EXCEPT ![s] = "checked"]
              /\ sres' = [sres EXCEPT ![s] = "none"]
              /\ UNCHANGED <<sjob, sctx>>
    /\ UNCHANGED <<notQueue, qcfgVars, jobs, closed, jobsClosed, closes, active,
                   inflight, wpc, wjob, hpc, hctx, hres, accepted, claims, execs,
                   sends, rbuf>>

\* (mutant) a jobs channel that buffers without limit.
CanEnqueueUnbounded == ~jobsClosed

\* (mutant) a buffer that refuses its last position.
CanEnqueueOffByOne == ~jobsClosed /\ Len(jobs) + 1 < jobsCap

\* A send on m.jobs can proceed by buffering (a send on the closed channel
\* panics instead).
CanEnqueue == ~jobsClosed /\ Len(jobs) < jobsCap

\* The worker w receives the job j from m.jobs and counts it in m.inflight.
Claim(w, j) ==
    /\ wpc' = [wpc EXCEPT ![w] = "claimed"]
    /\ wjob' = [wjob EXCEPT ![w] = j]
    /\ claims' = [claims EXCEPT ![j] = @ + 1]
    /\ inflight' = inflight + 1

\* Submit after the first select. With cap(m.jobs) = 0: the look at m.active.
\* With a buffer: the select on the send, on m.closed, with a default branch.
SubmitCheck(s) ==
    /\ spc[s] = "checked"
    /\ IF jobsCap = 0
         THEN IF active >= workers
                THEN SubmitReturn(s, "ErrQueueFull") /\ UNCHANGED <<accepted, jobs>>
                ELSE /\ spc' = [spc EXCEPT ![s] = "handoff"]
                     /\ UNCHANGED <<sres, sjob, sctx, accepted, jobs>>
         ELSE \/ /\ CanEnqueue
                 /\ Accept(s)
                 /\ jobs' = Append(jobs, accepted + 1)
              \/ /\ jobsClosed
                 /\ SubmitReturn(s, "panic")
                 /\ UNCHANGED <<accepted, jobs>>
              \/ /\ closed
                 /\ SubmitReturn(s, "ErrShutdown")
                 /\ UNCHANGED <<accepted, jobs>>
              \/ /\ ~CanEnqueue /\ ~jobsClosed /\ ~closed
                 /\ SubmitReturn(s, "ErrQueueFull")
                 /\ UNCHANGED <<accepted, jobs>>
    /\ UNCHANGED <<notQueue, qcfgVars, closed, jobsClosed, closes, active, inflight,
                   wpc, wjob, hpc, hctx, hres, claims, execs, sends, rbuf>>

\* The blocking select of the capacity-0 branch: the send proceeds when a worker
\* is at its receive, and the job goes straight to that worker.
SubmitHandoff(s) ==
    /\ spc[s] = "handoff"
    /\ \/ /\ ~jobsClosed
          /\ \E w \in Workers :
                /\ wpc[w] = "recv"
                /\ Claim(w, accepted + 1)
          /\ Accept(s)
       \/ /\ jobsClosed
          /\ SubmitReturn(s, "panic")
          /\ UNCHANGED <<accepted, wpc, wjob, claims, inflight>>
       \/ /\ closed
          /\ SubmitReturn(s, "ErrShutdown")
          /\ UNCHANGED <<accepted, wpc, wjob, claims, inflight>>
       \/ /\ sctx[s] = "done"
          /\ SubmitReturn(s, "CtxErr")
          /\ UNCHANGED <<accepted, wpc, wjob, claims, inflight>>
    /\ UNCHANGED <<notQueue, qcfgVars, jobs, closed, jobsClosed, closes, active,
                   hpc, hctx, hres, execs, sends, rbuf>>

\* The select on j.result, ctx.Done() and m.closed; on m.closed a second,
\* non-blocking look at j.result.
SubmitWait(s) ==
    /\ spc[s] = "waitres"
    /\ \/ /\ rbuf[sjob[s]] # "empty"
          /\ SubmitReturn(s, rbuf[sjob[s]])
          /\ rbuf' = [rbuf EXCEPT ![sjob[s]] = "empty"]
       \/ /\ sctx[s] = "done"
          /\ SubmitReturn(s, "CtxErr")
          /\ UNCHANGED rbuf
       \/ /\ closed
          /\ IF rbuf[sjob[s]] # "empty"
               THEN /\ SubmitReturn(s, rbuf[sjob[s]])
                    /\ rbuf' = [rbuf EXCEPT ![sjob[s]] = "empty"]
               ELSE /\ SubmitReturn(s, "ErrShutdown")
                    /\ UNCHANGED rbuf
    /\ UNCHANGED <<notQueue, qcfgVars, jobs, closed, jobsClosed, closes, active,
                   inflight, wpc, wjob, hpc, hctx, hres, accepted, claims, execs, sends>>

\* The context of a Submit in progress is cancelled or reaches its deadline.
SubmitCtxDone(s) ==
    /\ spc[s] \in {"handoff", "waitres"}
    /\ sctx[s] = "live"
    /\ sctx' = [sctx EXCEPT ![s] = "done"]
    /\ UNCHANGED <<notQueue, qcfgVars, jobs, closed, jobsClosed, closes, active,
                   inflight, wpc, wjob, spc, sjob, sres, hpc, hctx, hres, accepted,
                   claims, execs, sends, rbuf>>

\* (mutant) a receive that takes the newest buffered job.
NextBufferedNewest(q) == q[Len(q)]

\* The job a receive on m.jobs takes from the buffer: the oldest.
NextBuffered(q) == Head(q)

\* (mutant) a buffer that keeps the job a receive has taken.
AfterReceiveKeeps(q) == q

\* The buffer after a receive.
AfterReceive(q) == Tail(q)

\* for j := range m.jobs: the worker takes a buffered job, or leaves the loop
\* (and runs wg.Done) when the channel is closed and empty.
WorkerReceive(w) ==
    /\ wpc[w] = "recv"
    /\ \/ /\ jobs # <<>>
          /\ Claim(w, NextBuffered(jobs))
          /\ jobs' = AfterReceive(jobs)
       \/ /\ jobs = <<>>
          /\ jobsClosed
          /\ wpc' = [wpc EXCEPT ![w] = "exited"]
          /\ UNCHANGED <<jobs, wjob, claims, inflight>>
    /\ UNCHANGED <<notQueue, qcfgVars, closed, jobsClosed, closes, active, spc, sctx,
                   sjob, sres, hpc, hctx, hres, accepted, execs, sends, rbuf>>

\* m.active.Add(1), then the call j.fn(j.ctx).
WorkerStart(w) ==
    /\ wpc[w] = "claimed"
    /\ active' = active + 1
    /\ execs' = [execs EXCEPT ![wjob[w]] = @ + 1]
    /\ wpc' = [wpc EXCEPT ![w] = "running"]
    /\ UNCHANGED <<notQueue, qcfgVars, jobs, closed, jobsClosed, closes, inflight,
                   wjob, spc, sctx, sjob, sres, hpc, hctx, hres, accepted, claims,
                   sends, rbuf>>

\* (mutant) a result channel without buffer: the send needs the submitter at
\* its receive.
ResultSendUnbuffered(j) == \E s \in Submitters : spc[s] = "waitres" /\ sjob[s] = j

\* The send j.result <- err can proceed: the channel has capacity 1.
ResultSendReady(j) == rbuf[j] = "empty"

\* j.fn returns and the worker sends what it returned on j.result.
WorkerReturn(w) ==
    /\ wpc[w] = "running"
    /\ ResultSendReady(wjob[w])
    /\ rbuf' = [rbuf EXCEPT ![wjob[w]] = "fnResult"]
    /\ sends' = [sends EXCEPT ![wjob[w]] = @ + 1]
    /\ wpc' = [wpc EXCEPT ![w] = "reported"]
    /\ UNCHANGED <<notQueue, qcfgVars, jobs, closed, jobsClosed, closes, active,
                   inflight, wjob, spc, sctx, sjob, sres, hpc, hctx, hres, accepted,
                   claims, execs>>

\* m.active.Add(-1); m.inflight.Done(); back to the receive.
WorkerDone(w) ==
    /\ wpc[w] = "reported"
    /\ active' = active - 1
    /\ inflight' = inflight - 1
    /\ wpc' = [wpc EXCEPT ![w] = "recv"]
    /\ wjob' = [wjob EXCEPT ![w] = 0]
    /\ UNCHANGED <<notQueue, qcfgVars, jobs, closed, jobsClosed, closes, spc, sctx,
                   sjob, sres, hpc, hctx, hres, accepted, claims, execs, sends, rbuf>>

\* (mutant) closing without sync.Once.
CloseAlwaysRuns(n) == TRUE

\* closeOnce.Do runs its function on the first call only.
CloseOnceRuns(n) == n = 0

\* Shutdown is called: closeOnce.Do. The first caller closes m.closed; a later
\* caller returns from Do once the first has finished closing.
ShutdownCall(h) ==
    /\ hpc[h] = "idle"
    /\ IF CloseOnceRuns(closes)
         THEN /\ closed' = TRUE
              /\ closes' = IF closes < 2 THEN closes + 1 ELSE closes
              /\ hpc' = [hpc EXCEPT ![h] = "closing"]
         ELSE /\ jobsClosed
              /\ hpc' = [hpc EXCEPT ![h] = "wait"]
              /\ UNCHANGED <<closed, closes>>
    /\ hctx' = [hctx EXCEPT ![h] = "live"]
    /\ hres' = [hres EXCEPT ![h] = "none"]
    /\ UNCHANGED <<notQueue, qcfgVars, jobs, jobsClosed, active, inflight, wpc, wjob,
                   spc, sctx, sjob, sres, accepted, claims, execs, sends, rbuf>>

\* close(m.jobs), the second statement of the function of closeOnce.Do.
ShutdownCloseJobs(h) ==
    /\ hpc[h] = "closing"
    /\ jobsClosed' = TRUE
    /\ hpc' = [hpc EXCEPT ![h] = "wait"]
    /\ UNCHANGED <<notQueue, qcfgVars, jobs, closed, closes, active, inflight, wpc,
                   wjob, spc, sctx, sjob, sres, hctx, hres, accepted, claims, execs,
                   sends, rbuf>>

\* The context of a waiting Shutdown is cancelled or reaches its deadline.
ShutdownCtxDone(h) ==
    /\ hpc[h] = "wait"
    /\ hctx[h] = "live"
    /\ hctx' = [hctx EXCEPT ![h] = "done"]
    /\ UNCHANGED <<notQueue, qcfgVars, jobs, closed, jobsClosed, closes, active,
                   inflight, wpc, wjob, spc, sctx, sjob, sres, hpc, hres, accepted,
                   claims, execs, sends, rbuf>>

\* (mutant) a Shutdown that does not wait for the drain.
ShutdownReturnNoWait(h) ==
    /\ hpc[h] = "wait"
    /\ hres' = [hres EXCEPT ![h] = "nil"]
    /\ hpc' = [hpc EXCEPT ![h] = "idle"]
    /\ UNCHANGED <<notQueue, qcfgVars, jobs, closed, jobsClosed, closes, active,
                   inflight, wpc, wjob, spc, sctx, sjob, sres, hctx, accepted, claims,
                   execs, sends, rbuf>>

\* The select of Shutdown on done and ctx.Done().
ShutdownReturn(h) ==
    /\ hpc[h] = "wait"
    /\ \/ Drained /\ hres' = [hres EXCEPT ![h] = "nil"]
       \/ hctx[h] = "done" /\ hres' = [hres EXCEPT ![h] = "CtxErr"]
    /\ hpc' = [hpc EXCEPT ![h] = "idle"]
    /\ UNCHANGED <<notQueue, qcfgVars, jobs, closed, jobsClosed, closes, active,
                   inflight, wpc, wjob, spc, sctx, sjob, sres, hctx, accepted, claims,
                   execs, sends, rbuf>>

QNext ==
    \/ \E s \in Submitters :
          \/ SubmitCall(s)
          \/ SubmitCheck(s)
          \/ SubmitHandoff(s)
          \/ SubmitWait(s)
          \/ SubmitCtxDone(s)
    \/ \E w \in Workers :
          \/ WorkerReceive(w)
          \/ WorkerStart(w)
          \/ WorkerReturn(w)
          \/ WorkerDone(w)
    \/ \E h \in ShutdownCallers :
          \/ ShutdownCall(h)
          \/ ShutdownCloseJobs(h)
          \/ ShutdownCtxDone(h)
          \/ ShutdownReturn(h)

QueueSpec == QInit /\ [][QNext]_vars

\* The workers take the jobs they can receive and the functions of the jobs
\* return; a Shutdown whose select has a ready case returns.
QueueFairSpec ==
    /\ QInit
    /\ [][QNext]_vars
    /\ \A w \in Workers :
          /\ WF_vars(WorkerReceive(w))
          /\ WF_vars(WorkerStart(w))
          /\ WF_vars(WorkerReturn(w))
          /\ WF_vars(WorkerDone(w))
    /\ \A h \in ShutdownCallers :
          /\ WF_vars(ShutdownCloseJobs(h))
          /\ WF_vars(ShutdownReturn(h))

\* ---------------------------------------------------------- claims, queue
\* The caller s takes the first step of a Submit call.
SubmitStarts(s) == spc[s] = "idle" /\ (spc'[s] # "idle" \/ sres'[s] # sres[s])

\* No accepted job is buffered and no worker holds a job.
NoJobLeft == jobs = <<>> /\ \A w \in Workers : wjob[w] = 0

\* C11: a Submit that starts once Shutdown has closed m.closed (the manager is
\* Draining) returns ErrShutdown in its first step: it does not wait, enqueues
\* nothing and runs nothing; and m.closed and m.jobs never reopen.
C11_SubmitAfterShutdown ==
    [][/\ closed => closed'
       /\ jobsClosed => jobsClosed'
       /\ \A s \in Submitters :
             (closed /\ SubmitStarts(s))
                => /\ spc'[s] = "idle"
                   /\ sres'[s] = "ErrShutdown"
                   /\ accepted' = accepted
                   /\ jobs' = jobs
                   /\ execs' = execs]_vars

\* C11 witness: the manager has been shut down and has drained, and every
\* caller's last Submit returned ErrShutdown without any job ever accepted.
C11_Witness ==
    /\ closed /\ Drained
    /\ accepted = 0
    /\ \A s \in Submitters : spc[s] = "idle" /\ sres[s] = "ErrShutdown"

\* C12: Shutdown returns nil only when no job is queued and none is held by a
\* worker; a Shutdown that returns while a job is queued or held returns its
\* context's error; once the manager has drained every accepted job has been
\* executed; and a Shutdown in progress eventually returns nil unless its
\* context fires.
C12_ShutdownDrains ==
    /\ [](\A h \in ShutdownCallers : hres[h] = "nil" => (Drained /\ NoJobLeft))
    /\ [][\A h \in ShutdownCallers :
            (hpc[h] = "wait" /\ hpc'[h] = "idle" /\ ~NoJobLeft)
               => (hres'[h] = "CtxErr" /\ hctx[h] = "done")]_vars
    /\ [](Drained => \A j \in JobIds : j <= accepted => execs[j] = 1)
    /\ \A h \in ShutdownCallers :
          (hpc[h] \in {"closing", "wait"}) ~> (hres[h] = "nil" \/ hctx[h] = "done")

\* C12 witness: a Shutdown returned nil after two accepted jobs, one of which
\* a submitter did not wait for.
C12_Witness ==
    /\ accepted = 2
    /\ \E h \in ShutdownCallers : hres[h] = "nil"
    /\ \E j \in JobIds : rbuf[j] = "fnResult"

AllWorkersBusy == \A w \in Workers : wpc[w] \in {"claimed", "running", "absent"}

\* C14: with cap(m.jobs) = 0 and the manager Running, a Submit that reaches
\* its capacity check while every worker holds an unfinished job returns
\* ErrQueueFull in that step, and hands its job to no worker.
C14_BusyMeansQueueFull ==
    [][\A s \in Submitters :
          (jobsCap = 0 /\ ~closed /\ AllWorkersBusy
             /\ spc[s] = "checked" /\ spc'[s] # "checked")
             => (spc'[s] = "idle" /\ sres'[s] = "ErrQueueFull")]_vars

\* C15: with cap(m.jobs) > 0 and the manager Running, the enqueue step of
\* Submit never waits: it returns ErrQueueFull exactly when the buffer holds
\* jobsCap jobs and otherwise appends the job; ErrQueueFull leaves the manager
\* Running with its buffer and workers as they were.
C15_QueueFullWhenBufferFull ==
    /\ [](\A s \in Submitters :
            (jobsCap > 0 /\ spc[s] = "checked") => ENABLED SubmitCheck(s))
    /\ [](\A s \in Submitters : jobsCap > 0 => spc[s] # "handoff")
    /\ [][\A s \in Submitters :
            (jobsCap > 0 /\ ~closed /\ spc[s] = "checked" /\ spc'[s] # "checked")
               => IF Len(jobs) = jobsCap
                    THEN /\ spc'[s] = "idle" /\ sres'[s] = "ErrQueueFull"
                         /\ UNCHANGED <<jobs, closed, jobsClosed, wpc, accepted>>
                    ELSE /\ spc'[s] = "waitres"
                         /\ jobs' = Append(jobs, sjob'[s])
                         /\ accepted' = accepted + 1]_vars

\* C15 witness: on a Running manager with a one-position buffer a Submit was
\* refused with ErrQueueFull and, the position freed, the next one is accepted.
C15_Witness ==
    /\ jobsCap = 1 /\ ~closed
    /\ accepted = 2
    /\ \E s1, s2 \in Submitters :
          /\ spc[s1] = "idle" /\ sres[s1] = "ErrQueueFull"
          /\ spc[s2] = "waitres" /\ sjob[s2] = 2

\* The buffered positions of the job j.
Buffered(j) == {i \in 1..Len(jobs) : jobs[i] = j}

\* C16: every accepted job is received by one worker, its function is started
\* once and one result is sent for it: never twice, and not zero times, since
\* an accepted job is in the buffer exactly once until it is received, every
\* accepted job is eventually run, and a drained manager has run them all.
C16_ExactlyOnce ==
    /\ [](\A j \in JobIds :
            /\ claims[j] <= 1 /\ execs[j] <= claims[j] /\ sends[j] <= execs[j]
            /\ j > accepted => (claims[j] = 0 /\ Buffered(j) = {})
            /\ j <= accepted => Cardinality(Buffered(j)) = 1 - claims[j])
    /\ [](Drained => \A j \in JobIds : j <= accepted => sends[j] = 1)
    /\ \A j \in JobIds : (j <= accepted) ~> (sends[j] = 1)

\* C16 witness: after Shutdown closed the channels a worker runs the second
\* job, which was still buffered, and no submitter is waiting any more.
C16_Witness ==
    /\ jobsClosed
    /\ \A s \in Submitters : spc[s] = "idle"
    /\ \E w \in Workers : wpc[w] = "running" /\ wjob[w] = 2
    /\ jobsCap > 0

\* The worker w holds a job.
Holding(w) == wpc[w] \in {"claimed", "running", "reported"}

\* C17: a Submit that returns its context's error while its job is with a
\* worker leaves the worker and the job as they are; the worker running a job
\* can always send the result (the result channel has room), so it finishes
\* the job and returns to its receive.
C17_AbandonedJobCompletes ==
    /\ [](\A w \in Workers : wpc[w] = "running" => ResultSendReady(wjob[w]))
    /\ [][\A s \in Submitters :
            (spc[s] = "waitres" /\ spc'[s] = "idle" /\ sres'[s] = "CtxErr")
               => UNCHANGED <<wpc, wjob, jobs, claims, execs, sends, rbuf, active>>]_vars
    /\ \A w \in Workers : Holding(w) ~> ~Holding(w)

\* C17 witness: with one worker and the manager Running, the result of job 1
\* was sent although its submitter had returned its context's error, and the
\* worker has gone on to job 2.
C17_Witness ==
    /\ workers = 1 /\ ~closed
    /\ rbuf[1] = "fnResult"
    /\ \E s \in Submitters : spc[s] = "idle" /\ sres[s] = "CtxErr"
    /\ \E w \in Workers : wjob[w] = 2

\* C18: the buffer holds the jobs in the order they were accepted, a receive
\* takes the oldest of them, and with one worker a job is started only after
\* the result of every earlier job was sent.
C18_BufferedFifo ==
    /\ [](\A i, k \in 1..Len(jobs) : i < k => jobs[i] < jobs[k])
    /\ [][\A w \in Workers :
            (wjob[w] = 0 /\ wjob'[w] # 0 /\ jobs # <<>>)
               => \A i \in 1..Len(jobs') : wjob'[w] < jobs'[i]]_vars
    /\ [](workers = 1 =>
            \A i, k \in JobIds : (i < k /\ execs[k] >= 1) => sends[i] = 1)

\* C18 witness: two jobs waited in the buffer and the worker has received
\* job 1 while job 2 is still buffered.
C18_Witness ==
    /\ jobsCap = 2 /\ workers = 1
    /\ jobs = <<2>>
    /\ \E w \in Workers : wpc[w] = "claimed" /\ wjob[w] = 1
    /\ \A s \in Submitters : spc[s] = "waitres"

\* ============================================================ streaming relay
\* Status codes of net/http the handlers write.
StatusOK == 200
StatusBadRequest == 400
StatusNotFound == 404
StatusRequestEntityTooLarge == 413
StatusInternalServerError == 500
StatusBadGateway == 502
StatusServiceUnavailable == 503
StatusGatewayTimeout == 504

RelayKinds == {"Loop", "Copy", "Queue"}

\* The statuses a backend non-success response is given here: 400, 404 and one
\* that is neither.
BackendStatuses == {StatusBadRequest, StatusNotFound, StatusInternalServerError}

\* The errors chunker.Stream returns when Acquire fails: the two limiter
\* errors, or the ctx.Err() of the request.
AcquireErrors == {"LimitExceeded", "AcquireTimeout", "Canceled", "Timeout"}

\* The errors the call of the backend returns in each handler:
\* BackendClient.TTSStream, backend.Client.StreamTTS of part_007 (its
\* encodeTTSRequest returns no error for a request) and of part_006.
CallErrors(k) ==
    CASE k = "Loop" -> {"Encoding", "Other", "Timeout", "Unavailable", "BackendError"}
      [] k = "Copy" -> {"Other", "Timeout", "Canceled", "BackendError"}
      [] k = "Queue" -> {"Encoding", "Other", "Timeout", "Canceled", "BackendError"}

\* The errors of a read of the backend's response body.
ReadErrors == {"Other", "Timeout", "Canceled"}

\* TTSHandler.handleStreamError: the status for an error of class c.
handleStreamError(c) ==
    CASE c = "AcquireTimeout" -> StatusGatewayTimeout
      [] c = "LimitExceeded" -> StatusServiceUnavailable
      [] c = "Timeout" -> StatusGatewayTimeout
      [] c = "BackendError" -> StatusBadGateway
      [] OTHER -> StatusInternalServerError

\* TTSHandler.writeChunkerError (queue variant): the status for class c.
writeChunkerError(c) ==
    CASE c = "LimitExceeded" -> StatusServiceUnavailable
      [] c = "AcquireTimeout" -> StatusGatewayTimeout
      [] OTHER -> StatusBadGateway

\* Handler.handleBackendError: the status for class c, and for a BackendError
\* whose StatusCode is s.
handleBackendError(c, s) ==
    CASE c = "Timeout" -> StatusGatewayTimeout
      [] c = "Canceled" -> StatusBadRequest
      [] c = "BackendError" ->
            IF s = StatusBadRequest THEN StatusBadRequest
            ELSE IF s = StatusNotFound THEN StatusNotFound
            ELSE StatusBadGateway
      [] OTHER -> StatusBadGateway

\* What the handler of kind k can find wrong with a request before it goes on:
\* only parseRequest of TTSHandler (tts_handler.go:103) limits the body.
RequestDefects(k) ==
    IF k = "Copy" THEN {"none", "invalid", "tooLarge"} ELSE {"none", "invalid"}

RInit ==
    /\ ChunkerOff
    /\ QueueOff
    /\ CodecOff
    /\ ClientOff
    /\ \E k \in RelayKinds, n \in 0..MaxChunks, e \in {"EOF", "err", "callErr"} :
          \E d \in RequestDefects(k) :
             RelayInit(k, IF e = "callErr" THEN 0 ELSE n, e, d)

\* net/http commits the response: the first status, with the headers of that
\* moment, is the one sent; a later one is ignored.
Commit(code, h) ==
    /\ status' = IF status = 0 THEN code ELSE status
    /\ hdrSent' = IF status = 0 THEN h ELSE hdrSent

\* w.WriteHeader(code) with h the Content-Type in w.Header().
WriteHeader(code, h) ==
    /\ Commit(code, h)
    /\ headerCalls' = IF headerCalls < 2 THEN headerCalls + 1 ELSE headerCalls

\* w.Write(item) on the client connection.
SinkAfterWrite(item) == IF sinkOk THEN Append(sink, item) ELSE sink

\* writeError / WriteError: Content-Type application/json, a status and a
\* JSON error body.
WriteError(code) ==
    /\ hdrSet' = "json"
    /\ WriteHeader(code, "json")
    /\ errStatus' = code
    /\ sink' = SinkAfterWrite("errbody")

\* The function handed to chunker.Stream returns e, an error of class c: the
\* deferred release runs and ServeHTTP goes on with the error.
StreamFnReturns(e, c) ==
    /\ slotHeld' = FALSE
    /\ releases' = releases + DeferredReleases(e)
    /\ relayErr' = e
    /\ errClass' = c
    /\ rpc' = IF e = "nil" THEN "done" ELSE "handleErr"

\* (mutant) a handler that validates nothing.
parseRequestLenient(d) == 0

\* parseRequest / validate / ParseTTSRequest and the checks of HandleTTS for a
\* request with the defect d: the status of the error response, 0 when the
\* request is accepted.
parseRequest(d) ==
    CASE d = "none" -> 0
      [] d = "invalid" -> StatusBadRequest
      [] d = "tooLarge" -> StatusRequestEntityTooLarge

\* The first step of every handler: the request is decoded and validated; a
\* rejected request gets its error response and the handler returns.
ParseRequest ==
    /\ rpc = "parse"
    /\ IF parseRequest(reqDefect) = 0
         THEN /\ rpc' = "start"
              /\ UNCHANGED <<sink, status, headerCalls, hdrSet, hdrSent, relayErr,
                             errStatus>>
         ELSE /\ WriteError(parseRequest(reqDefect))
              /\ relayErr' = "parseErr"
              /\ rpc' = "done"
    /\ UNCHANGED <<notRelay, reqDefect, rkind, bChunks, bEnd, nread, nflushed, sinkOk,
                   slotHeld, releases, errClass, bStatus>>

\* TTSHandler.ServeHTTP (queue variant): h.queue.Acquire lets the request in,
\* or the queue is full.
QueueAcquire ==
    /\ rkind = "Queue"
    /\ rpc = "start"
    /\ \/ /\ rpc' = "queued"
          /\ UNCHANGED <<sink, status, headerCalls, hdrSet, hdrSent, relayErr,
                         errClass, errStatus>>
       \/ /\ WriteError(StatusServiceUnavailable)
          /\ relayErr' = "queueFull"
          /\ errClass' = "QueueFull"
          /\ rpc' = "done"
    /\ UNCHANGED <<notRelay, reqDefect, rkind, bChunks, bEnd, nread, nflushed, sinkOk, slotHeld,
                   releases, bStatus>>

\* TTSHandler.ServeHTTP: chunker.Stream acquires a slot, or returns the error
\* of Acquire.
StreamAcquire ==
    /\ \/ rkind = "Copy" /\ rpc = "start"
       \/ rkind = "Queue" /\ rpc = "queued"
    /\ \/ /\ slotHeld' = TRUE
          /\ rpc' = "call"
          /\ UNCHANGED <<relayErr, errClass>>
       \/ /\ relayErr' = "acquireErr"
          /\ \E c \in AcquireErrors : errClass' = c
          /\ rpc' = "handleErr"
          /\ UNCHANGED slotHeld
    /\ UNCHANGED <<notRelay, reqDefect, rkind, bChunks, bEnd, nread, nflushed, sink, sinkOk,
                   status, headerCalls, hdrSet, hdrSent, releases, bStatus, errStatus>>

\* TTSHandler.writeStreamingHeaders (queue variant), called before the
\* backend: the streaming headers are set and Flush commits them with 200.
StreamingHeaders ==
    /\ rkind = "Queue"
    /\ rpc = "call"
    /\ hdrSet' = "audio"
    /\ Commit(StatusOK, "audio")
    /\ rpc' = "flushed"
    /\ UNCHANGED <<notRelay, reqDefect, rkind, bChunks, bEnd, nread, nflushed, sink, sinkOk,
                   headerCalls, slotHeld, releases, relayErr, errClass, bStatus,
                   errStatus>>

\* The call of the backend. handleStreamingTTS: on an error the error response,
\* else the streaming headers are set. TTSHandler: on an error the function
\* returns it, else (lines 81-84) the backend's Content-Type, if any, and
\* status are written.
BackendCall ==
    /\ \/ rkind = "Loop" /\ rpc = "start"
       \/ rkind = "Copy" /\ rpc = "call"
       \/ rkind = "Queue" /\ rpc = "flushed"
    /\ IF bEnd = "callErr"
         THEN \E c \in CallErrors(rkind) :
              \E s \in IF c = "BackendError" THEN BackendStatuses ELSE {0} :
                 /\ bStatus' = s
                 /\ IF rkind = "Loop"
                      THEN /\ WriteError(handleBackendError(c, s))
                           /\ relayErr' = "backendErr"
                           /\ errClass' = c
                           /\ rpc' = "done"
                           /\ UNCHANGED <<slotHeld, releases>>
                      ELSE /\ StreamFnReturns("backendErr", c)
                           /\ UNCHANGED <<status, headerCalls, hdrSet, hdrSent, sink,
                                          errStatus>>
         ELSE /\ rpc' = "read"
              /\ CASE rkind = "Loop" ->
                        /\ hdrSet' = "audio"
                        /\ UNCHANGED <<status, headerCalls, hdrSent>>
                   [] rkind = "Copy" ->
                        /\ \E ct \in {hdrSet, "audio"} :
                              hdrSet' = ct /\ WriteHeader(StatusOK, ct)
                   [] rkind = "Queue" ->
                        UNCHANGED <<status, headerCalls, hdrSet, hdrSent>>
              /\ UNCHANGED <<sink, relayErr, errClass, bStatus, errStatus, slotHeld,
                             releases>>
    /\ UNCHANGED <<notRelay, reqDefect, rkind, bChunks, bEnd, nread, nflushed, sinkOk>>

\* stream.Read(buf) / the read of io.Copy, io.CopyBuffer: the next chunk, or
\* the end of the backend's response.
RelayRead ==
    /\ rpc = "read"
    /\ IF nread < bChunks
         THEN /\ nread' = nread + 1
              /\ rpc' = "write"
              /\ UNCHANGED <<relayErr, errClass, slotHeld, releases>>
         ELSE /\ nread' = nread
              /\ IF rkind = "Loop"
                   THEN /\ rpc' = "done"
                        /\ UNCHANGED <<relayErr, errClass, slotHeld, releases>>
                   ELSE IF bEnd = "EOF"
                          THEN StreamFnReturns("nil", "none")
                          ELSE \E c \in ReadErrors : StreamFnReturns("readErr", c)
    /\ UNCHANGED <<notRelay, reqDefect, rkind, bChunks, bEnd, nflushed, sink, sinkOk, status,
                   headerCalls, hdrSet, hdrSent, bStatus, errStatus>>

\* w.Write(buf[:n]); the first Write commits 200 when no status was written.
\* handleStreamingTTS flushes after a write that succeeded and reads on after
\* one that failed; io.Copy, io.CopyBuffer return the error of the write.
RelayWrite ==
    /\ rpc = "write"
    /\ sink' = SinkAfterWrite("chunk")
    /\ IF sinkOk THEN Commit(StatusOK, hdrSet) ELSE UNCHANGED <<status, hdrSent>>
    /\ IF rkind = "Loop"
         THEN /\ rpc' = IF sinkOk THEN "flush" ELSE "read"
              /\ UNCHANGED <<relayErr, errClass, slotHeld, releases>>
         ELSE IF sinkOk
                THEN rpc' = "read" /\ UNCHANGED <<relayErr, errClass, slotHeld, releases>>
                ELSE StreamFnReturns("writeErr", "Other")
    /\ UNCHANGED <<notRelay, reqDefect, rkind, bChunks, bEnd, nread, nflushed, sinkOk, headerCalls,
                   hdrSet, bStatus, errStatus>>

\* flusher.Flush()
RelayFlush ==
    /\ rpc = "flush"
    /\ nflushed' = nflushed + 1
    /\ rpc' = "read"
    /\ UNCHANGED <<notRelay, reqDefect, rkind, bChunks, bEnd, nread, sink, sinkOk, status,
                   headerCalls, hdrSet, hdrSent, slotHeld, releases, relayErr,
                   errClass, bStatus, errStatus>>

\* TTSHandler.ServeHTTP with an error of chunker.Stream: handleStreamError,
\* or writeChunkerError in the queue variant, and writeError.
HandleStreamError ==
    /\ rpc = "handleErr"
    /\ WriteError(IF rkind = "Queue" THEN writeChunkerError(errClass)
                                     ELSE handleStreamError(errClass))
    /\ rpc' = "done"
    /\ UNCHANGED <<notRelay, reqDefect, rkind, bChunks, bEnd, nread, nflushed, sinkOk, slotHeld,
                   releases, relayErr, errClass, bStatus>>

\* The client goes away: from now on writes to it fail.
ClientGone ==
    /\ rpc # "done"
    /\ sinkOk
    /\ sinkOk' = FALSE
    /\ UNCHANGED <<notRelay, reqDefect, rkind, bChunks, bEnd, rpc, nread, nflushed, sink, status,
                   headerCalls, hdrSet, hdrSent, slotHeld, releases, relayErr,
                   errClass, bStatus, errStatus>>

RNext ==
    \/ ParseRequest
    \/ QueueAcquire
    \/ StreamAcquire
    \/ StreamingHeaders
    \/ BackendCall
    \/ RelayRead
    \/ RelayWrite
    \/ RelayFlush
    \/ HandleStreamError
    \/ ClientGone

RelaySpec == RInit /\ [][RNext]_vars

\* ---------------------------------------------------------- claims, relay
\* C19: in the loop of handleStreamingTTS the chunks read from the backend
\* never run more than one ahead of the chunks flushed to the client.
C19_OneChunkAhead == rkind = "Loop" => nread - nflushed <= 1

\* The sink holds exactly n chunks and nothing else.
OnlyChunks(n) == Len(sink) = n /\ \A i \in 1..Len(sink) : sink[i] = "chunk"

\* C20: when TTSHandler.ServeHTTP has ended a request whose backend response
\* failed after some but not all of its data, with the client connected, the
\* sink holds exactly the chunks delivered and nothing after them, the relay
\* reported the failure, and the slot of the request was released once.
C20_PartialFailure ==
    (rkind = "Copy" /\ rpc = "done" /\ bEnd = "err" /\ bChunks >= 1 /\ sinkOk
        /\ relayErr = "readErr")
       => /\ OnlyChunks(bChunks)
          /\ releases = 1
          /\ ~slotHeld

\* The request ended with the backend call failed and the client connected.
CallFailed == rpc = "done" /\ relayErr = "backendErr" /\ sinkOk

\* The status the handler of kind k maps an error of class c to.
MappedStatus(k, c, s) ==
    CASE k = "Loop" -> handleBackendError(c, s)
      [] k = "Copy" -> handleStreamError(c)
      [] k = "Queue" -> writeChunkerError(c)

\* C21: nothing (no status, no headers) is committed to the client before the
\* outcome of the backend call is known, and when the backend call fails the
\* client receives the error response alone, with the status mapped from the
\* failure.
C21_CallFailureReported ==
    /\ rpc \in {"start", "queued", "call", "flushed"} =>
          status = 0 /\ hdrSent = "none"
    /\ CallFailed =>
          /\ status = MappedStatus(rkind, errClass, bStatus)
          /\ hdrSent = "json"
          /\ sink = <<"errbody">>

\* C22: per request the handler writes the status at most once: it does not
\* call WriteHeader again, and does not set a header, once a status is
\* committed.
C22_StatusWrittenOnce ==
    /\ headerCalls <= 1
    /\ status # 0 => hdrSet = hdrSent

\* The classes of errors C29 gives a status for, and that status.
ClaimedClasses ==
    {"LimitExceeded", "AcquireTimeout", "Timeout", "BackendError", "Encoding", "Other"}

ClaimedStatus(c) ==
    CASE c = "LimitExceeded" -> StatusServiceUnavailable
      [] c \in {"AcquireTimeout", "Timeout"} -> StatusGatewayTimeout
      [] c = "BackendError" -> StatusBadGateway
      [] c \in {"Encoding", "Other"} -> StatusInternalServerError

\* C29: the status a handler hands to writeError for an error is 503 for
\* LimitExceeded, 504 for AcquireTimeout and for a timeout, 502 for a backend
\* non-success response, 500 for an encoding error or an unclassified one.
C29_StatusMapping ==
    (errStatus # 0 /\ errClass \in ClaimedClasses) => errStatus = ClaimedStatus(errClass)

\* ---------------------------------------------------------- claims, gauge
\* C30: with the Chunker of part_000 and its Metrics, in every state the
\* active-streams gauge equals the number of granted and not yet released
\* slots: it is never negative, never above the capacity, and 0 when every
\* grant was released, also when a release closure is called more than once.
C30_GaugeTracksSlots ==
    variant = "Metrics" =>
        /\ activeStreams = Cardinality(Holders)
        /\ activeStreams >= 0
        /\ activeStreams <= cap

\* ============================================================ request encoder
\* The format's tags, as written by part_007.
FixMapTag == 128
Map16Tag == 222
FixStrTag == 160
Str8Tag == 217
Str16Tag == 218
Str32Tag == 219
TrueTag == 195
FalseTag == 194
Float64Tag == 203

\* The keys and sample values, as bytes.
KeyText == <<116, 101, 120, 116>>
KeyReferenceID == <<114, 101, 102, 101, 114, 101, 110, 99, 101, 95, 105, 100>>
KeyStreaming == <<115, 116, 114, 101, 97, 109, 105, 110, 103>>
KeyFormat == <<102, 111, 114, 109, 97, 116>>
KeyTopP == <<116, 111, 112, 95, 112>>
KeyTemperature == <<116, 101, 109, 112, 101, 114, 97, 116, 117, 114, 101>>
StrHello == <<104, 101, 108, 108, 111>>
StrWav == <<119, 97, 118>>
StrMp3 == <<109, 112, 51>>
StrRef == <<114, 101, 102>>

\* A string of n bytes 'a'.
StringOfLen(n) == [i \in 1..n |-> 97]

\* float64 values: 0.5, 0.7, 1.0.
Float05 == <<16352, 0, 0, 0>>
Float07 == <<16358, 26214, 26214, 26214>>
Float10 == <<16368, 0, 0, 0>>

\* The requests encoded here: every combination of presence of the optional
\* fields, over a few values of each field (a Text of 40 bytes has a str8
\* header).
Payloads ==
    [Text : {StrHello, <<>>, StringOfLen(40)},
     ReferenceID : {<<>>, StrRef},
     Streaming : BOOLEAN,
     Format : {StrWav, StrMp3},
     TopP : {<<>>, <<Float07>>, <<Float10>>},
     Temperature : {<<>>, <<Float07>>, <<Float05>>}]

\* The lengths of the values handed to writeString: both sides of each tier.
StringLengths == {0, 1, 31, 32, 255, 256, 65535, 65536}

\* The sizes handed to writeMapHeader: both sides of each tier.
MapSizes == {-1, 0, 3, 6, 15, 16, 255, 256, 65535, 65536}

\* a | b on unsigned integers.
RECURSIVE BitOr(_, _)
BitOr(a, b) ==
    IF a = 0 THEN b
    ELSE IF b = 0 THEN a
    ELSE (IF a % 2 = 1 \/ b % 2 = 1 THEN 1 ELSE 0) + 2 * BitOr(a \div 2, b \div 2)

\* The conversions byte(n), uint16(n) and uint32(n) of a non-negative int
\* (below 2^31 here, so uint32 keeps it).
byte(n) == n % 256
uint16(n) == n % 65536
uint32(n) == n

\* binary.Write(buf, binary.BigEndian, x) for a uint16, a uint32 and the bits
\* of a float64.
BigEndian16(n) == <<(n \div 256) % 256, n % 256>>
BigEndian32(n) ==
    <<(n \div 16777216) % 256, (n \div 65536) % 256, (n \div 256) % 256, n % 256>>
BigEndian64(f) ==
    BigEndian16(f[1]) \o BigEndian16(f[2]) \o BigEndian16(f[3]) \o BigEndian16(f[4])

\* (mutant) writeMapHeader whose first tier ends at 16.
writeMapHeaderFix16(b, size) ==
    IF size < 0 THEN [buf |-> b, err |-> "negative map size"]
    ELSE IF size <= 16 THEN [buf |-> Append(b, BitOr(FixMapTag, byte(size))), err |-> "nil"]
    ELSE IF size <= 65535
           THEN [buf |-> b \o <<Map16Tag>> \o BigEndian16(uint16(size)), err |-> "nil"]
    ELSE [buf |-> b, err |-> "map too large"]

\* writeMapHeader(buf, size): the buffer after the call, and the error.
writeMapHeader(b, size) ==
    IF size < 0 THEN [buf |-> b, err |-> "negative map size"]
    ELSE IF size <= 15 THEN [buf |-> Append(b, BitOr(FixMapTag, byte(size))), err |-> "nil"]
    ELSE IF size <= 65535
           THEN [buf |-> b \o <<Map16Tag>> \o BigEndian16(uint16(size)), err |-> "nil"]
    ELSE [buf |-> b, err |-> "map too large"]

\* (mutant) writeString whose first tier ends at 32.
writeStringFix32(b, value) ==
    LET length == Len(value)
    IN  IF length <= 32 THEN Append(b, BitOr(FixStrTag, byte(length))) \o value
        ELSE IF length <= 255 THEN b \o <<Str8Tag, byte(length)>> \o value
        ELSE IF length <= 65535
               THEN b \o <<Str16Tag>> \o BigEndian16(uint16(length)) \o value
        ELSE b \o <<Str32Tag>> \o BigEndian32(uint32(length)) \o value

\* writeString(buf, value): the buffer after the call.
writeString(b, value) ==
    LET length == Len(value)
    IN  IF length <= 31 THEN Append(b, BitOr(FixStrTag, byte(length))) \o value
        ELSE IF length <= 255 THEN b \o <<Str8Tag, byte(length)>> \o value
        ELSE IF length <= 65535
               THEN b \o <<Str16Tag>> \o BigEndian16(uint16(length)) \o value
        ELSE b \o <<Str32Tag>> \o BigEndian32(uint32(length)) \o value

\* (mutant) writeBool with the two tags exchanged.
writeBoolSwapped(b, value) == Append(b, IF value THEN FalseTag ELSE TrueTag)

\* writeBool(buf, value)
writeBool(b, value) == Append(b, IF value THEN TrueTag ELSE FalseTag)

\* (mutant) writeFloat64 in little-endian order.
writeFloat64LittleEndian(b, value) ==
    Append(b, Float64Tag)
        \o <<value[4] % 256, (value[4] \div 256) % 256,
              value[3] % 256, (value[3] \div 256) % 256,
              value[2] % 256, (value[2] \div 256) % 256,
              value[1] % 256, (value[1] \div 256) % 256>>

\* writeFloat64(buf, value)
writeFloat64(b, value) == Append(b, Float64Tag) \o BigEndian64(value)

\* (mutant) the count of the always present fields alone.
fieldCountRequiredOnly(payload) == 3

\* encodeTTSRequest, lines 96-105: the number of fields to write.
fieldCount(payload) ==
    3 + (IF payload.ReferenceID # <<>> THEN 1 ELSE 0)
      + (IF payload.TopP # <<>> THEN 1 ELSE 0)
      + (IF payload.Temperature # <<>> THEN 1 ELSE 0)

\* (mutant) encodeTTSRequest writing the fields in the alphabetical order of
\* their keys.
encodeTTSRequestSorted(payload) ==
    LET header == writeMapHeader(<<>>, fieldCount(payload))
        b1 == writeString(writeString(header.buf, KeyFormat), payload.Format)
        b2 == IF payload.ReferenceID # <<>>
                THEN writeString(writeString(b1, KeyReferenceID), payload.ReferenceID)
                ELSE b1
        b3 == writeBool(writeString(b2, KeyStreaming), payload.Streaming)
        b4 == IF payload.Temperature # <<>>
                THEN writeFloat64(writeString(b3, KeyTemperature), payload.Temperature[1])
                ELSE b3
        b5 == writeString(writeString(b4, KeyText), payload.Text)
        b6 == IF payload.TopP # <<>>
                THEN writeFloat64(writeString(b5, KeyTopP), payload.TopP[1])
                ELSE b5
    IN  IF header.err # "nil" THEN [buf |-> <<>>, err |-> header.err]
        ELSE [buf |-> b6, err |-> "nil"]

\* encodeTTSRequest(payload): the bytes returned, and the error.
encodeTTSRequest(payload) ==
    LET header == writeMapHeader(<<>>, fieldCount(payload))
        b1 == writeString(writeString(header.buf, KeyText), payload.Text)
        b2 == IF payload.ReferenceID # <<>>
                THEN writeString(writeString(b1, KeyReferenceID), payload.ReferenceID)
                ELSE b1
        b3 == writeBool(writeString(b2, KeyStreaming), payload.Streaming)
        b4 == writeString(writeString(b3, KeyFormat), payload.Format)
        b5 == IF payload.TopP # <<>>
                THEN writeFloat64(writeString(b4, KeyTopP), payload.TopP[1])
                ELSE b4
        b6 == IF payload.Temperature # <<>>
                THEN writeFloat64(writeString(b5, KeyTemperature), payload.Temperature[1])
                ELSE b5
    IN  IF header.err # "nil" THEN [buf |-> <<>>, err |-> header.err]
        ELSE [buf |-> b6, err |-> "nil"]

\* ---- a decoder of the format: maps with string keys and string, bool,
\* float64 or nil values.
\* The unsigned integer whose big-endian bytes are s.
RECURSIVE BigEndianValue(_)
BigEndianValue(s) ==
    IF s = <<>> THEN 0
    ELSE 256 * BigEndianValue(SubSeq(s, 1, Len(s) - 1)) + s[Len(s)]

ReadFailed == [ok |-> FALSE, kind |-> "none", str |-> <<>>, bool |-> FALSE,
               float |-> <<>>, next |-> 0]

\* The string that starts at position i of b.
ReadStr(b, i) ==
    IF i > Len(b) THEN ReadFailed
    ELSE LET t == b[i]
             h == IF t >= 160 /\ t <= 191 THEN [len |-> 1, n |-> t - 160]
                  ELSE IF t = 217 /\ i + 1 <= Len(b) THEN [len |-> 2, n |-> b[i + 1]]
                  ELSE IF t = 218 /\ i + 2 <= Len(b)
                         THEN [len |-> 3, n |-> BigEndianValue(SubSeq(b, i + 1, i + 2))]
                  ELSE IF t = 219 /\ i + 4 <= Len(b)
                         THEN [len |-> 5, n |-> BigEndianValue(SubSeq(b, i + 1, i + 4))]
                  ELSE [len |-> 0, n |-> 0]
         IN  IF h.len = 0 \/ i + h.len + h.n - 1 > Len(b) THEN ReadFailed
             ELSE [ok |-> TRUE, kind |-> "str",
                   str |-> SubSeq(b, i + h.len, i + h.len + h.n - 1),
                   bool |-> FALSE, float |-> <<>>, next |-> i + h.len + h.n]

\* The value that starts at position i of b (192 is the format's nil).
ReadValue(b, i) ==
    IF i > Len(b) THEN ReadFailed
    ELSE LET t == b[i]
         IN  IF t = 195 \/ t = 194
               THEN [ok |-> TRUE, kind |-> "bool", str |-> <<>>, bool |-> (t = 195),
                     float |-> <<>>, next |-> i + 1]
             ELSE IF t = 192
               THEN [ok |-> TRUE, kind |-> "nil", str |-> <<>>, bool |-> FALSE,
                     float |-> <<>>, next |-> i + 1]
             ELSE IF t = 203
               THEN IF i + 8 > Len(b) THEN ReadFailed
                    ELSE [ok |-> TRUE, kind |-> "float", str |-> <<>>, bool |-> FALSE,
                          float |-> <<BigEndianValue(SubSeq(b, i + 1, i + 2)),
                                      BigEndianValue(SubSeq(b, i + 3, i + 4)),
                                      BigEndianValue(SubSeq(b, i + 5, i + 6)),
                                      BigEndianValue(SubSeq(b, i + 7, i + 8))>>,
                          next |-> i + 9]
             ELSE ReadStr(b, i)

\* The n key/value pairs that start at position i of b.
RECURSIVE ReadEntries(_, _, _)
ReadEntries(b, i, n) ==
    IF n = 0 THEN [ok |-> TRUE, entries |-> <<>>, next |-> i]
    ELSE LET k == ReadStr(b, i)
             v == ReadValue(b, k.next)
             r == ReadEntries(b, v.next, n - 1)
         IN  IF ~k.ok \/ ~v.ok \/ ~r.ok THEN [ok |-> FALSE, entries |-> <<>>, next |-> 0]
             ELSE [ok |-> TRUE,
                   entries |-> <<[key |-> k.str, kind |-> v.kind, str |-> v.str,
                                  bool |-> v.bool, float |-> v.float]>> \o r.entries,
                   next |-> r.next]

\* The map encoded in b: the size its header declares, its key/value pairs in
\* order, and the number of bytes of b after them.
DecodeMap(b) ==
    LET h == IF b = <<>> THEN [at |-> 0, n |-> 0]
             ELSE IF b[1] >= 128 /\ b[1] <= 143 THEN [at |-> 2, n |-> b[1] - 128]
             ELSE IF b[1] = 222 /\ Len(b) >= 3
                    THEN [at |-> 4, n |-> BigEndianValue(SubSeq(b, 2, 3))]
             ELSE [at |-> 0, n |-> 0]
        r == ReadEntries(b, h.at, h.n)
    IN  IF h.at = 0 \/ ~r.ok THEN NoDecode
        ELSE [ok |-> TRUE, declared |-> h.n, entries |-> r.entries,
              rest |-> Len(b) - r.next + 1]

CInit ==
    /\ ChunkerOff
    /\ QueueOff
    /\ RelayOff
    /\ ClientOff
    /\ \/ \E p \in Payloads : CodecInit("request", p, <<>>, 0)
       \/ \E l \in StringLengths : CodecInit("string", ZeroPayload, StringOfLen(l), 0)
       \/ \E n \in MapSizes : CodecInit("map", ZeroPayload, <<>>, n)

\* A call of encodeTTSRequest.
EncodeRequest ==
    /\ encOp = "request"
    /\ encPc = "input"
    /\ encBuf' = encodeTTSRequest(encPayload).buf
    /\ encErr' = encodeTTSRequest(encPayload).err
    /\ encPc' = "encoded"
    /\ UNCHANGED <<notCodec, encOp, encPayload, strValue, mapSize, encAgain, decoded>>

\* The receiver decodes the bytes.
DecodeRequest ==
    /\ encOp = "request"
    /\ encPc = "encoded"
    /\ encErr = "nil"
    /\ decoded' = DecodeMap(encBuf)
    /\ encPc' = "decoded"
    /\ UNCHANGED <<notCodec, encOp, encPayload, strValue, mapSize, encBuf, encErr,
                   encAgain>>

\* A second call of encodeTTSRequest with the same request.
EncodeAgain ==
    /\ encOp = "request"
    /\ encPc = "decoded"
    /\ encAgain' = encodeTTSRequest(encPayload).buf
    /\ encPc' = "again"
    /\ UNCHANGED <<notCodec, encOp, encPayload, strValue, mapSize, encBuf, encErr,
                   decoded>>

\* A call of writeString on an empty buffer.
EncodeString ==
    /\ encOp = "string"
    /\ encPc = "input"
    /\ encBuf' = writeString(<<>>, strValue)
    /\ encPc' = "encoded"
    /\ UNCHANGED <<notCodec, encOp, encPayload, strValue, mapSize, encErr, encAgain,
                   decoded>>

\* A call of writeMapHeader on an empty buffer.
EncodeMapHeader ==
    /\ encOp = "map"
    /\ encPc = "input"
    /\ encBuf' = writeMapHeader(<<>>, mapSize).buf
    /\ encErr' = writeMapHeader(<<>>, mapSize).err
    /\ encPc' = "encoded"
    /\ UNCHANGED <<notCodec, encOp, encPayload, strValue, mapSize, encAgain, decoded>>

CNext ==
    \/ EncodeRequest
    \/ DecodeRequest
    \/ EncodeAgain
    \/ EncodeString
    \/ EncodeMapHeader

CodecSpec == CInit /\ [][CNext]_vars

\* ---------------------------------------------------------- claims, encoder
\* The request {Text:"hello", Streaming:false, Format:"wav"}.
HelloPayload ==
    [Text |-> StrHello, ReferenceID |-> <<>>, Streaming |-> FALSE, Format |-> StrWav,
     TopP |-> <<>>, Temperature |-> <<>>]

\* C23: encodeTTSRequest of {Text:"hello", Streaming:false, Format:"wav"}
\* returns exactly 0x83, 0xa4 "text", 0xa5 "hello", 0xa9 "streaming", 0xc2,
\* 0xa6 "format", 0xa3 "wav".
C23_HelloBytes ==
    (encOp = "request" /\ encPc # "input" /\ encPayload = HelloPayload) =>
        /\ encErr = "nil"
        /\ encBuf = <<131, 164, 116, 101, 120, 116,
                      165, 104, 101, 108, 108, 111,
                      169, 115, 116, 114, 101, 97, 109, 105, 110, 103, 194,
                      166, 102, 111, 114, 109, 97, 116,
                      163, 119, 97, 118>>

C23_Witness ==
    /\ encOp = "request" /\ encPc = "encoded" /\ encPayload = HelloPayload
    /\ Len(encBuf) = 34

\* The encoded request has been decoded.
Decoded == encOp = "request" /\ encPc \in {"decoded", "again"}

\* The keys of the decoded map, in order.
DecodedKeys == [i \in 1..Len(decoded.entries) |-> decoded.entries[i].key]

HasKey(k) == \E i \in 1..Len(decoded.entries) : decoded.entries[i].key = k

\* The optional fields present in the request p.
PresentOptionals(p) ==
    (IF p.ReferenceID # <<>> THEN {KeyReferenceID} ELSE {})
        \cup (IF p.TopP # <<>> THEN {KeyTopP} ELSE {})
        \cup (IF p.Temperature # <<>> THEN {KeyTemperature} ELSE {})

\* C24: for every combination of presence of the optional fields, the size
\* the map header declares is the number of key/value pairs written, 3 plus
\* the number of optional fields present, and an absent optional field has
\* no key and no nil value in the output.
C24_MapSizeMatchesFields ==
    Decoded =>
        /\ decoded.ok
        /\ decoded.declared = 3 + Cardinality(PresentOptionals(encPayload))
        /\ Len(decoded.entries) = decoded.declared
        /\ decoded.rest = 0
        /\ \A k \in {KeyReferenceID, KeyTopP, KeyTemperature} :
              HasKey(k) <=> k \in PresentOptionals(encPayload)
        /\ \A i \in 1..Len(decoded.entries) : decoded.entries[i].kind # "nil"

C24_Witness ==
    /\ Decoded
    /\ PresentOptionals(encPayload) = {KeyTopP}
    /\ decoded.declared = 4
    /\ decoded.rest = 0

\* The keys in their declared order.
DeclaredOrder ==
    <<KeyText, KeyReferenceID, KeyStreaming, KeyFormat, KeyTopP, KeyTemperature>>

IsWritten(k) ==
    k \in {KeyText, KeyStreaming, KeyFormat} \cup PresentOptionals(encPayload)

C26_StringTiers ==
    (encOp = "string" /\ encPc = "encoded") =>
        LET n == Len(strValue)
            h == IF n <= 31 THEN 1 ELSE IF n <= 255 THEN 2 ELSE IF n <= 65535 THEN 3 ELSE 5
        IN  /\ Len(encBuf) = h + n
            /\ encBuf[1] = (IF n <= 31 THEN 160 + n
                            ELSE IF n <= 255 THEN 217
                            ELSE IF n <= 65535 THEN 218 ELSE 219)
            /\ h > 1 => BigEndianValue(SubSeq(encBuf, 2, h)) = n
            /\ SubSeq(encBuf, h + 1, h + n) = strValue

C26_Witness ==
    /\ encOp = "string" /\ encPc = "encoded"
    /\ Len(strValue) = 65536
    /\ SubSeq(encBuf, 1, 5) = <<219, 0, 1, 0, 0>>

\* C27: writeMapHeader writes the byte 0x80|size for 0 <= size <= 15, 0xde and
\* the big-endian uint16 size for 16 <= size <= 65535, and returns an error and
\* writes nothing for a size above 65535 or below 0; encodeTTSRequest
\* returns no error.
C27_MapHeaderTiers ==
    /\ (encOp = "map" /\ encPc = "encoded") =>
          IF mapSize >= 0 /\ mapSize <= 15
            THEN encErr = "nil" /\ encBuf = <<128 + mapSize>>
          ELSE IF mapSize >= 16 /\ mapSize <= 65535
            THEN encErr = "nil" /\ encBuf = <<222, mapSize \div 256, mapSize % 256>>
          ELSE encErr # "nil" /\ encBuf = <<>>
    /\ (encOp = "request" /\ encPc # "input") => encErr = "nil"

C27_Witness ==
    /\ encOp = "map" /\ encPc = "encoded"
    /\ mapSize = 16
    /\ encBuf = <<222, 0, 16>>

\* The decoded entry of key k.
EntryOf(k) ==
    decoded.entries[CHOOSE i \in 1..Len(decoded.entries) : decoded.entries[i].key = k]

\* C28: a decoder of the format reads back from the output of
\* encodeTTSRequest the values of text, streaming, format and of every
\* optional field present, and no entry for an absent one.
C28_RoundTrip ==
    Decoded =>
        /\ decoded.ok /\ decoded.rest = 0
        /\ HasKey(KeyText) /\ EntryOf(KeyText).kind = "str"
        /\ EntryOf(KeyText).str = encPayload.Text
        /\ HasKey(KeyStreaming) /\ EntryOf(KeyStreaming).kind = "bool"
        /\ EntryOf(KeyStreaming).bool = encPayload.Streaming
        /\ HasKey(KeyFormat) /\ EntryOf(KeyFormat).kind = "str"
        /\ EntryOf(KeyFormat).str = encPayload.Format
        /\ IF encPayload.ReferenceID # <<>>
             THEN /\ HasKey(KeyReferenceID) /\ EntryOf(KeyReferenceID).kind = "str"
                  /\ EntryOf(KeyReferenceID).str = encPayload.ReferenceID
             ELSE ~HasKey(KeyReferenceID)
        /\ IF encPayload.TopP # <<>>
             THEN /\ HasKey(KeyTopP) /\ EntryOf(KeyTopP).kind = "float"
                  /\ EntryOf(KeyTopP).float = encPayload.TopP[1]
             ELSE ~HasKey(KeyTopP)
        /\ IF encPayload.Temperature # <<>>
             THEN /\ HasKey(KeyTemperature) /\ EntryOf(KeyTemperature).kind = "float"
                  /\ EntryOf(KeyTemperature).float = encPayload.Temperature[1]
             ELSE ~HasKey(KeyTemperature)
        /\ Len(decoded.entries) = 3 + Cardinality(PresentOptionals(encPayload))

C28_Witness ==
    /\ encOp = "request" /\ encPc = "decoded"
    /\ decoded.ok
    /\ Len(encPayload.Text) = 40
    /\ encPayload.ReferenceID = StrRef
    /\ encPayload.TopP = <<Float07>>
    /\ encPayload.Temperature = <<Float05>>
    /\ EntryOf(KeyTopP).float = Float07

\* ---------------------------------------------------------- claims, counters
\* The callers whose Acquire returns the error e in this step.
Returning(e) ==
    {p \in Procs : pc[p] \in {"fast", "slow", "wait"} /\ pc'[p] = "idle" /\ result'[p] = e}

\* C31: in every step the acquire-timeout counter grows by the number of
\* Acquire calls that return ErrAcquireTimeout in it and the limit-exceeded
\* counter by the number that return ErrLimitExceeded: each such return
\* counts once, and a grant, a cancelled Acquire and a release count nothing.
C31_CountersCountRefusals ==
    [][(variant \in CountingVariants) =>
          (/\ acquireTimeouts' =
                 acquireTimeouts + Cardinality(Returning("ErrAcquireTimeout"))
           /\ limitExceeded' =
                 limitExceeded + Cardinality(Returning("ErrLimitExceeded")))]_vars

C31_Witness ==
    /\ variant = "Metrics"
    /\ acquireTimeouts = 1
    /\ \E p \in Procs : result[p] = "ErrAcquireTimeout"
    /\ \E p \in Procs : result[p] = "CtxErr"
    /\ \E p \in Procs : pc[p] = "holding" /\ released[p] = 1

\* ------------------------------------------------- claims, release closure
\* C32 (as claimed): the release closure a holder was given can always be
\* called to completion, the first time and every later time, whatever the
\* number of tokens in the slot channel.
C32_ReleaseNeverBlocks ==
    \A p \in Procs :
        pc[p] = "holding" => ReleaseEnabled(variant, slots, released[p])

\* ------------------------------------------------- claims, queue shutdown
\* The Submit of the caller s returns from its select on j.result.
ReturnsFromWait(s) == spc[s] = "waitres" /\ spc'[s] = "idle"

\* A worker is executing the function of the job of the caller s.
JobRunning(s) == \E w \in Workers : wpc[w] = "running" /\ wjob[w] = sjob[s]

\* C33 (as claimed): a Submit whose job a worker is already running returns
\* only the result of the job or the error of its own context, also when
\* Shutdown has begun.
C33_AcceptedReturnsOwnResult ==
    [][\A s \in Submitters :
          (ReturnsFromWait(s) /\ JobRunning(s))
              => sres'[s] \in {"fnResult", "CtxErr"}]_vars

\* C34 (as claimed): no Submit reaches the send on the closed jobs channel.
C34_NoSendOnClosed ==
    \A s \in Submitters : sres[s] # "panic"

\* ------------------------------------------------- claims, cancellation
\* The limiter and the manager, one of them in use at a time: the behaviours
\* of Spec and those of QueueSpec.
CancelInit == Init \/ QInit

CancelNext ==
    \/ QueueOff /\ Next
    \/ ChunkerOff /\ QNext

CancelSpec == CancelInit /\ [][CancelNext]_vars

\* The implementations of Chunker.Acquire whose blocking select has a case on
\* the caller's own ctx.Done().
OwnCtxVariants == {"Metrics", "Config"}

\* The caller p is parked in the blocking select of Acquire and its context
\* has fired.
AcquireCancelled(p) ==
    variant \in OwnCtxVariants /\ pc[p] = "wait" /\ CtxDoneNow(ctx[p])

\* The caller s is parked in a blocking select of Submit and its context has
\* fired.
SubmitCancelled(s) == spc[s] \in {"handoff", "waitres"} /\ sctx[s] = "done"

\* The caller h is parked in the select of Shutdown and its context has fired.
ShutdownCancelled(h) == hpc[h] = "wait" /\ hctx[h] = "done"

\* Another case of the select the caller is parked in is ready as well.
AcquireOtherReady(p) == CanSend(slots, cap) \/ TimerReady(timer[p])

SubmitOtherReady(s) ==
    \/ closed
    \/ jobsClosed
    \/ spc[s] = "handoff" /\ \E w \in Workers : wpc[w] = "recv"
    \/ spc[s] = "waitres" /\ rbuf[sjob[s]] # "empty"

Forwarding == {"read", "write", "flush"}

\* C36 (as claimed): when w.Write fails, or the read from the backend fails,
\* the relay leaves its loop: no further read, write or flush follows.
C36_StopsAfterFailure ==
    [][/\ (rpc = "write" /\ ~sinkOk /\ rpc' # rpc) => rpc' \notin Forwarding
       /\ (rpc = "read" /\ nread = bChunks /\ bEnd = "err" /\ rpc' # rpc)
             => rpc' \notin Forwarding]_vars

\* ------------------------------------------------- claims, queue bounds
\* Jobs whose function a worker has called and that have not yet returned.
Executing == {j \in JobIds : execs[j] > sends[j]}

\* Accepted jobs no worker has received yet.
Unclaimed == {j \in 1..accepted : claims[j] = 0}

\* Accepted jobs whose function has not yet returned.
Unfinished == {j \in 1..accepted : sends[j] = 0}

\* C37: in a Manager with W workers and a jobs channel of capacity C, at most
\* W jobs are being executed, m.active is within 0..W, at most C accepted jobs
\* are waiting to be received, and at most C + W accepted jobs are unfinished.
C37_QueueBounds ==
    /\ Cardinality(Executing) <= workers
    /\ active \in 0..workers
    /\ Cardinality(Unclaimed) <= jobsCap
    /\ Len(jobs) <= jobsCap
    /\ Cardinality(Unfinished) <= jobsCap + workers

\* The buffer is full and the only worker is running a job: C + W unfinished.
C37_Witness ==
    /\ workers = 1
    /\ jobsCap = 1
    /\ active = workers
    /\ Cardinality(Executing) = workers
    /\ Cardinality(Unclaimed) = jobsCap
    /\ Cardinality(Unfinished) = jobsCap + workers

\* ------------------------------------------------- claims, failed Acquire
AcquireErrorResults == {"ErrLimitExceeded", "ErrAcquireTimeout", "CtxErr"}

\* Callers whose last Acquire returned an error and who have not called again.
Refused == {p \in Procs : pc[p] = "idle" /\ result[p] \in AcquireErrorResults}

\* C38: an Acquire that returns an error leaves the number of tokens in the
\* slot channel and the set of holders as they were, and its caller has no
\* release closure to call; a refused caller is never a holder, the tokens in
\* the channel are those of the holders only, and a token is added only by
\* the step that grants a caller its slot, so that a freed slot is free for
\* whoever calls next.
C38_FailedAcquireTakesNothing ==
    /\ [][\A p \in Procs :
            ReturnsError(p)
               => /\ result'[p] \in AcquireErrorResults
                  /\ slots' = slots
                  /\ Holders' = Holders
                  /\ released'[p] = released[p]
                  /\ pc'[p] = "idle"]_vars
    /\ [](Refused \cap Holders = {})
    /\ [](slots = Cardinality(Holders))
    /\ [][slots' > slots
            => (slots' = slots + 1 /\ \E p \in Procs : ReturnsSlot(p))]_vars
    /\ [][\A p \in Procs :
            p \in Refused => pc'[p] \notin {"holding", "work"}]_vars

\* On a limiter of capacity 1 a caller gave up waiting, the holder released,
\* and a third caller holds the freed slot.
C38_Witness ==
    /\ cap = 1
    /\ \E p, q, r \in Procs :
          /\ pc[q] = "idle" /\ result[q] \in {"ErrAcquireTimeout", "CtxErr"}
          /\ pc[p] = "holding" /\ released[p] = 1
          /\ pc[r] = "holding" /\ released[r] = 0
    /\ slots = 1

\* ============================================================ backend.Client
DoOutcomes == {"ok", "status500", "transportErr"}

KInit ==
    /\ ChunkerOff
    /\ QueueOff
    /\ RelayOff
    /\ CodecOff
    /\ \E t \in {0, 1}, o \in DoOutcomes, n \in 0..MaxChunks : ClientInit(t, o, n)

\* The deferred cancel() of StreamTTS, with the timeout t and the request
\* context in state c: it runs when StreamTTS returns, whatever it returns,
\* and exists only when c.timeout > 0.
DeferredCancel(t, c) == IF t > 0 /\ c = "live" THEN "canceled" ELSE c

\* StreamTTS is called: the request is encoded, ctx is wrapped in WithTimeout
\* when c.timeout > 0, and httpClient.Do is entered.
StreamCall ==
    /\ stpc = "start"
    /\ stpc' = "do"
    /\ UNCHANGED <<notClient, clientTimeout, doOutcome, bodyLen, reqCtx, cancelBy,
                   stErr, bodyRead, bodyErr>>

\* httpClient.Do returns and StreamTTS returns: an error of Do (also when the
\* context ended first), an HTTPError for a status outside 2xx, or the
\* response; then the deferred cancel runs.
DoReturns ==
    /\ stpc = "do"
    /\ stErr' = IF reqCtx # "live" \/ doOutcome = "transportErr" THEN "perform"
                ELSE IF doOutcome = "status500" THEN "HTTPError"
                ELSE "nil"
    /\ reqCtx' = DeferredCancel(clientTimeout, reqCtx)
    /\ cancelBy' = IF reqCtx' # reqCtx THEN "StreamTTS" ELSE cancelBy
    /\ stpc' = "returned"
    /\ UNCHANGED <<notClient, clientTimeout, doOutcome, bodyLen, bodyRead, bodyErr>>

\* The request is in progress or its body is open.
RequestOpen == stpc = "do" \/ (stpc = "returned" /\ stErr = "nil")

\* The caller of StreamTTS cancels the context it passed.
CallerCancel ==
    /\ RequestOpen
    /\ reqCtx = "live"
    /\ reqCtx' = "canceled"
    /\ cancelBy' = "caller"
    /\ UNCHANGED <<notClient, clientTimeout, doOutcome, bodyLen, stpc, stErr,
                   bodyRead, bodyErr>>

\* c.timeout elapses.
TimeoutElapses ==
    /\ RequestOpen
    /\ clientTimeout > 0
    /\ reqCtx = "live"
    /\ reqCtx' = "deadline"
    /\ cancelBy' = "timeout"
    /\ UNCHANGED <<notClient, clientTimeout, doOutcome, bodyLen, stpc, stErr,
                   bodyRead, bodyErr>>

\* resp.Body.Read by the caller: the next chunk, io.EOF after the last; once
\* the context of the request has ended the read fails with its error, unless
\* the transport had the data already.
BodyRead ==
    /\ stpc = "returned"
    /\ stErr = "nil"
    /\ bodyErr = "none"
    /\ \/ /\ bodyRead < bodyLen
          /\ bodyRead' = bodyRead + 1
          /\ bodyErr' = bodyErr
       \/ /\ bodyRead = bodyLen
          /\ bodyErr' = "EOF"
          /\ bodyRead' = bodyRead
       \/ /\ reqCtx # "live"
          /\ bodyErr' = "ctxErr"
          /\ bodyRead' = bodyRead
    /\ UNCHANGED <<notClient, clientTimeout, doOutcome, bodyLen, stpc, reqCtx,
                   cancelBy, stErr>>

\* resp.Body.Close() by the caller.
BodyClose ==
    /\ stpc = "returned"
    /\ stErr = "nil"
    /\ stpc' = "closed"
    /\ UNCHANGED <<notClient, clientTimeout, doOutcome, bodyLen, reqCtx, cancelBy,
                   stErr, bodyRead, bodyErr>>

KNext ==
    \/ StreamCall
    \/ DoReturns
    \/ CallerCancel
    \/ TimeoutElapses
    \/ BodyRead
    \/ BodyClose

ClientSpec == KInit /\ [][KNext]_vars

\* ---------------------------------------------------------- claims, client
\* C39 (as claimed): when StreamTTS has returned a response with a nil error,
\* StreamTTS has not itself ended the context of the request, with and
\* without a client timeout, and a read of the body fails with the error of
\* the context only after the caller cancelled or the timeout elapsed.
C39_BodyLiveAfterReturn ==
    /\ (stpc = "returned" /\ stErr = "nil") => cancelBy # "StreamTTS"
    /\ bodyErr = "ctxErr" => cancelBy \in {"caller", "timeout"}

\* ------------------------------------------------- claims, validation
\* C40: a request the handler rejects at validation is answered with 400 (one
\* whose body is over the limit with 413) and nothing else happens for it: no
\* step of admission (Acquire of the queue, Acquire of the Chunker) and no
\* call of the backend is taken, so it never holds a slot and nothing is read
\* from the backend.
C40_RejectedBeforeAdmission ==
    /\ [](reqDefect # "none" =>
             /\ rpc \in {"parse", "done"}
             /\ ~slotHeld
             /\ releases = 0
             /\ nread = 0
             /\ bStatus = 0
             /\ errClass = "none")
    /\ []((reqDefect = "invalid" /\ rpc = "done") =>
             /\ errStatus = StatusBadRequest
             /\ headerCalls = 1
             /\ (sinkOk => status = StatusBadRequest /\ sink = <<"errbody">>))
    /\ []((reqDefect = "tooLarge" /\ rpc = "done") =>
             errStatus = StatusRequestEntityTooLarge)
    /\ [][reqDefect # "none" => ~(QueueAcquire \/ StreamAcquire \/ BackendCall)]_vars

\* The handler in front of the queue and the Chunker has answered an invalid
\* request with 400.
C40_Witness ==
    /\ rkind = "Queue"
    /\ reqDefect = "invalid"
    /\ rpc = "done"
    /\ status = StatusBadRequest
    /\ sink = <<"errbody">>
====
